---- MODULE Spec2Model ----
(***************************************************************************)
(* State-machine model of scripts/build_digest_pdf.py: the font parser     *)
(* (TrueTypeFont), the PDF object writer (PDFDocument), the glyph usage    *)
(* tracker (FontEncoder), the greedy layout engine (LayoutEngine) and the  *)
(* assembler (build_pdf) with the script's entry point.                    *)
(*                                                                         *)
(* A font file is a sequence of bytes, each an integer 0..255, laid out as *)
(* the sfnt container is; the parser reads it with the slices and the      *)
(* struct formats of the code.  The bytes of the PDF (object bodies, the   *)
(* written file) and text are TLA+ strings; TLC evaluates Len, \o and      *)
(* SubSeq on them character by character, one character standing for one   *)
(* byte.  Characters outside ASCII are written with an ASCII stand-in      *)
(* (BULLET, NBSP, the four binary bytes of the file header).               *)
(* Lengths in points are integers in millipoints (1/1000 pt), so that      *)
(* 595.28, 11.5 and 11.5 * 1.45 are exact; the code uses binary floats.    *)
(*                                                                         *)
(* Let1..Let3 bind the value of an expression to a name, as an assignment  *)
(* to a local variable does: the expression is evaluated once.             *)
(***************************************************************************)
EXTENDS Integers, Sequences, FiniteSets, TLC

VARIABLES
    objects,        \* PDFDocument.objects: sequence of serialized bodies
    trailer_extra,  \* PDFDocument.trailer_extra: ordered key/value pairs
    file,           \* bytes of the file written by PDFDocument.write
    returned,       \* history: the ids returned by add_object/add_stream
    write_root,     \* history: the root_object passed to the last write
    encoder,        \* FontEncoder usage state (see EncoderInit)
    pages,          \* LayoutEngine.pages: per page its list of commands
    current_page,   \* index in pages of LayoutEngine.current_page, 0 = None
    cursor_y,       \* LayoutEngine.cursor_y, in millipoints
    nops,           \* history: number of layout operations called so far
    first_op,       \* history: the first layout operation called
    last_op,        \* history: the last layout operation called
    log,            \* history: the add_paragraph calls made by last_op
    build,          \* locals of build_pdf: font_obj, pages_objects, ...
    font_file,      \* the file at FONT_PATH: whether it exists, and its bytes
    font,           \* the TrueTypeFont that was constructed, NoFont before
    error,          \* the exception that ended the run, "" while there is none
    output_dir,     \* whether the directory of OUTPUT_PATH exists
    pc              \* which program runs and where it is

docVars == <<objects, trailer_extra, file, returned, write_root>>

layVars == <<encoder, pages, current_page, cursor_y, nops, first_op, last_op, log>>

runVars == <<font_file, font, error, output_dir>>

vars == <<docVars, layVars, build, runVars, pc>>

(***************************************************************************)
(* Bounds                                                                  *)
(***************************************************************************)
MaxObjects == 2

MaxOps == 2

MaxItems == 2

MaxContentOps == 1

MaxMetrics == 3

MaxOs2Version == 3

MaxEncOps == 2

(***************************************************************************)
(* Local bindings                                                          *)
(***************************************************************************)
Let1(a, F(_)) == CHOOSE r \in { F(x) : x \in {a} } : TRUE

Let2(a, b, F(_, _)) == CHOOSE r \in { F(x, y) : x \in {a}, y \in {b} } : TRUE

Let3(a, b, c, F(_, _, _)) ==
    CHOOSE r \in { F(x, y, z) : x \in {a}, y \in {b}, z \in {c} } : TRUE

(***************************************************************************)
(* Strings                                                                 *)
(***************************************************************************)
NoFile == "<none>"

CharAt(s, i) == SubSeq(s, i, i)

Digits == {"0", "1", "2", "3", "4", "5", "6", "7", "8", "9"}

DigitVal(c) == CHOOSE d \in 0..9 : ToString(d) = c

RECURSIVE JoinFrom(_, _, _)
JoinFrom(sep, parts, i) ==
    IF i > Len(parts) THEN ""
    ELSE IF i = Len(parts) THEN parts[i]
    ELSE parts[i] \o sep \o JoinFrom(sep, parts, i + 1)

\* sep.join(parts)
Join(sep, parts) == Let1(parts, LAMBDA ps : JoinFrom(sep, ps, 1))

RECURSIVE ZeroPadLoop(_, _)
ZeroPadLoop(digits, width) ==
    IF Len(digits) >= width THEN digits
    ELSE Let1("0" \o digits, LAMBDA d : ZeroPadLoop(d, width))

\* the format spec 0<width> for a number already written in digits
ZeroPad(digits, width) == Let1(digits, LAMBDA d : ZeroPadLoop(d, width))

\* f"{offset:010d}"
Format010d(n) == ZeroPad(ToString(n), 10)

(***************************************************************************)
(* Python dict as an insertion-ordered sequence of <<key, value>> pairs    *)
(***************************************************************************)
DictHas(d, k) == \E i \in 1..Len(d) : d[i][1] = k

\* d[k] = v : overwrite in place when the key exists, else append
DictSet(d, k, v) ==
    IF DictHas(d, k)
    THEN [i \in 1..Len(d) |-> IF d[i][1] = k THEN <<k, v>> ELSE d[i]]
    ELSE Append(d, <<k, v>>)

\* ["<<"] + [f"/{key} {value}" ...] + [">>"], joined by one space
SerializeDict(dictionary) ==
    Let1(dictionary, LAMBDA d :
        Join(" ", <<"<<">> \o [i \in 1..Len(d) |-> "/" \o d[i][1] \o " " \o d[i][2]]
                  \o <<">>">>))

\* zlib.compress: a 2-byte header, the deflate block and a 4-byte Adler-32.
\* The block is kept as a 2-byte block header followed by the payload, which
\* gives the 8 bytes zlib produces for empty input and a length that differs
\* from the raw length.
Deflate(data) == "xZ" \o "cB" \o data \o "ADLR"

(***************************************************************************)
(* PDFDocument                                                             *)
(***************************************************************************)
\* body appended by add_object
ObjectBytes(dictionary) == SerializeDict(dictionary)

\* body appended by add_stream
StreamBytes(dictionary, data, compress) ==
    Let1(IF compress THEN Deflate(data) ELSE data, LAMBDA data1 :
        LET d1 == IF compress THEN DictSet(dictionary, "Filter", "/FlateDecode")
                  ELSE dictionary
            d2 == DictSet(d1, "Length", ToString(Len(data1)))
        IN  Join("\n", <<SerializeDict(d2), "stream", data1, "endstream">>))

\* variant: the id is taken before the append (0-based position)
AppendedId_zero_based(objs) == Len(objs) - 1

\* self.objects.append(body); return len(self.objects)
AppendedId(objs) == Len(objs)

AppendObject(objs, body) == Append(objs, body)

\* the two header lines; #### stands for the bytes E2 E3 CF D3
FileHeader == "%PDF-1.6\n%####\n"

\* f"{index} 0 obj\n"
ObjectMarker(index) == ToString(index) \o " 0 obj\n"

\* variant: fh.tell() is taken after the "<id> 0 obj" line has been written
ObjectOffset_after_marker(out, index) == Len(out) + Len(ObjectMarker(index))

\* offsets.append(fh.tell()), out being the bytes written so far
ObjectOffset(out, index) == Len(out)

RECURSIVE WriteObjects(_, _, _, _)
\* the enumerate loop of write: returns <<bytes so far, offsets>>
WriteObjects(objs, index, out, offsets) ==
    IF index > Len(objs) THEN <<out, offsets>>
    ELSE Let2(out \o ObjectMarker(index) \o objs[index] \o "\nendobj\n",
              Append(offsets, ObjectOffset(out, index)),
              LAMBDA out1, offsets1 : WriteObjects(objs, index + 1, out1, offsets1))

RECURSIVE XrefRecordsFrom(_, _)
XrefRecordsFrom(offs, i) ==
    IF i > Len(offs) THEN ""
    ELSE Format010d(offs[i]) \o " 00000 n \n" \o XrefRecordsFrom(offs, i + 1)

\* the records written by the loop over offsets[1:]
XrefRecords(offsets) == XrefRecordsFrom(offsets, 2)

\* variant: the trailer's Size is the object count, without the free entry
TrailerSize_without_free(objs) == Len(objs)

\* len(self.objects) + 1
TrailerSize(objs) == Len(objs) + 1

\* the bytes PDFDocument.write puts in the file
WriteBytes(objs, extra, root_object) ==
    Let1(WriteObjects(objs, 1, FileHeader, <<0>>), LAMBDA body :
        LET out           == body[1]
            offsets       == body[2]
            xref_position == Len(out)
            trailer_parts == <<"<<", "/Size " \o ToString(TrailerSize(objs)),
                               "/Root " \o ToString(root_object) \o " 0 R">>
                             \o [i \in 1..Len(extra) |->
                                    "/" \o extra[i][1] \o " " \o extra[i][2]]
                             \o <<">>">>
        IN  out \o "xref\n0 " \o ToString(Len(objs) + 1) \o "\n"
                \o "0000000000 65535 f \n"
                \o XrefRecords(offsets)
                \o Join("\n", <<"trailer", Join(" ", trailer_parts), "startxref",
                                ToString(xref_position), "%%EOF">>))

(***************************************************************************)
(* Characters.  BULLET stands for U+2022 and NBSP for U+00A0.              *)
(***************************************************************************)
BULLET == "*"

NBSP == "~"

\* ord(ch)
Ord(ch) ==
    IF ch \in Digits THEN 48 + DigitVal(ch)
    ELSE CASE ch = " "    -> 32
           [] ch = "/"    -> 47
           [] ch = "A"    -> 65
           [] ch = "B"    -> 66
           [] ch = "a"    -> 97
           [] ch = "b"    -> 98
           [] ch = NBSP   -> 160
           [] ch = BULLET -> 8226

\* str.upper() on one character
UpperChar(ch) == IF ch = "a" THEN "A" ELSE IF ch = "b" THEN "B" ELSE ch

RECURSIVE UpperFrom(_, _)
UpperFrom(text, i) ==
    IF i > Len(text) THEN "" ELSE UpperChar(CharAt(text, i)) \o UpperFrom(text, i + 1)

\* text.upper()
Upper(text) == Let1(text, LAMBDA t : UpperFrom(t, 1))

RECURSIVE ReplaceNbspFrom(_, _)
ReplaceNbspFrom(text, i) ==
    IF i > Len(text) THEN ""
    ELSE (IF CharAt(text, i) = NBSP THEN " " ELSE CharAt(text, i))
         \o ReplaceNbspFrom(text, i + 1)

\* text.replace(NBSP, " ")
ReplaceNbsp(text) == Let1(text, LAMBDA t : ReplaceNbspFrom(t, 1))

\* bool(s.strip())
StripNonEmpty(s) == \E i \in 1..Len(s) : CharAt(s, i) # " "

RECURSIVE SplitFrom(_, _, _, _)
\* str.split(): the maximal runs of non-whitespace characters, in order
SplitFrom(text, i, word, words) ==
    IF i > Len(text)
    THEN IF word = "" THEN words ELSE Append(words, word)
    ELSE IF CharAt(text, i) = " "
         THEN Let1(IF word = "" THEN words ELSE Append(words, word),
                   LAMBDA ws : SplitFrom(text, i + 1, "", ws))
         ELSE Let1(word \o CharAt(text, i),
                   LAMBDA w : SplitFrom(text, i + 1, w, words))

Split(text) == Let1(text, LAMBDA t : SplitFrom(t, 1, "", <<>>))

(***************************************************************************)
(* Bytes and struct.  A bytes object is a sequence of integers 0..255; a   *)
(* call that can raise returns Ok(value) or Raise(exception name).  The    *)
(* 32-bit fields of the files of this model are below 2^31.                *)
(***************************************************************************)
Ok(v) == [error |-> "", value |-> v]

Raise(e) == [error |-> e]

Failed(r) == r.error # ""

\* the rest of a computation runs only when the step before it returned
Bind(r, F(_)) == CHOOSE x \in { IF Failed(y) THEN y ELSE F(y.value) : y \in {r} } : TRUE

\* data[a:b] for non-negative a and b
Slice(data, a, b) ==
    Let2(IF a < Len(data) THEN a ELSE Len(data),
         IF b < Len(data) THEN b ELSE Len(data),
         LAMBDA lo, hi : IF lo < hi THEN SubSeq(data, lo + 1, hi) ELSE <<>>)

\* a struct format after ">" is a sequence of field codes
FieldSize(c) == IF c \in {"H", "h"} THEN 2 ELSE 4

RECURSIVE CalcSize(_, _)
CalcSize(format, k) ==
    IF k = 0 THEN 0 ELSE CalcSize(format, k - 1) + FieldSize(format[k])

RECURSIVE BigEndian(_, _, _)
BigEndian(buffer, pos, n) ==
    IF n = 0 THEN 0 ELSE BigEndian(buffer, pos, n - 1) * 256 + buffer[pos + n]

\* the same bytes read as a two's complement number
RECURSIVE SignedBigEndian(_, _, _)
SignedBigEndian(buffer, pos, n) ==
    IF n = 1 THEN (IF buffer[pos + 1] >= 128 THEN buffer[pos + 1] - 256
                   ELSE buffer[pos + 1])
    ELSE SignedBigEndian(buffer, pos, n - 1) * 256 + buffer[pos + n]

UnpackField(c, buffer, pos) ==
    CASE c = "H" -> BigEndian(buffer, pos, 2)
      [] c = "h" -> SignedBigEndian(buffer, pos, 2)
      [] c = "I" -> BigEndian(buffer, pos, 4)
      [] c = "l" -> SignedBigEndian(buffer, pos, 4)
      [] c = "4s" -> SubSeq(buffer, pos + 1, pos + 4)

\* struct.unpack(">" + format, buffer)
Unpack(format, buffer) ==
    IF Len(buffer) # CalcSize(format, Len(format))
    THEN Raise("struct.error")
    ELSE Ok([k \in 1..Len(format) |->
                 UnpackField(format[k], buffer, CalcSize(format, k - 1))])

Repeat(c, n) == [k \in 1..n |-> c]

\* the characters table tags are written with
AsciiTable ==
    <<<<"h", 104>>, <<"e", 101>>, <<"a", 97>>, <<"d", 100>>, <<"m", 109>>,
      <<"x", 120>>, <<"p", 112>>, <<"t", 116>>, <<"c", 99>>, <<"O", 79>>,
      <<"S", 83>>, <<"/", 47>>, <<"2", 50>>, <<"o", 111>>, <<"s", 115>>>>

AsciiChar(b) ==
    IF \E k \in 1..Len(AsciiTable) : AsciiTable[k][2] = b
    THEN AsciiTable[CHOOSE k \in 1..Len(AsciiTable) : AsciiTable[k][2] = b][1]
    ELSE "?"

\* tag.decode("ascii")
DecodeAscii(tag) ==
    IF \E k \in 1..Len(tag) : tag[k] >= 128
    THEN Raise("UnicodeDecodeError")
    ELSE Ok(AsciiChar(tag[1]) \o AsciiChar(tag[2]) \o AsciiChar(tag[3])
            \o AsciiChar(tag[4]))

\* mapping[key] = value on a dict whose order is never looked at
Put(mapping, key, value) ==
    [k \in DOMAIN mapping \cup {key} |-> IF k = key THEN value ELSE mapping[k]]

EmptyDict == [k \in {} |-> 0]

(***************************************************************************)
(* TrueTypeFont                                                            *)
(***************************************************************************)
RECURSIVE ParseTableRecords(_, _, _, _)
ParseTableRecords(data, num_tables, i, tables) ==
    IF i = num_tables THEN Ok(tables)
    ELSE Bind(Unpack(<<"4s", "I", "I", "I">>, Slice(data, 12 + 16 * i, 28 + 16 * i)),
              LAMBDA r : Bind(DecodeAscii(r[1]),
              LAMBDA tag : ParseTableRecords(data, num_tables, i + 1,
                                             Put(tables, tag, <<r[3], r[4]>>))))

ParseOffsetTable(data) ==
    Bind(Unpack(<<"I", "H", "H", "H", "H">>, Slice(data, 0, 12)),
         LAMBDA h : ParseTableRecords(data, h[2], 0, EmptyDict))

\* offset, length = self.tables[tag]; table = self.data[offset : offset + length]
Table(data, tables, tag) ==
    IF tag \in DOMAIN tables
    THEN Ok(Slice(data, tables[tag][1], tables[tag][1] + tables[tag][2]))
    ELSE Raise("KeyError")

ParseHead(data, tables) ==
    Bind(Table(data, tables, "head"),
         LAMBDA table : Bind(Unpack(<<"H">>, Slice(table, 18, 20)),
         LAMBDA u : Bind(Unpack(<<"h", "h", "h", "h">>, Slice(table, 36, 44)),
         LAMBDA bbox : Ok([units_per_em |-> u[1], head_bbox |-> bbox]))))

ParseHhea(data, tables) ==
    Bind(Table(data, tables, "hhea"),
         LAMBDA table : Bind(Unpack(<<"h", "h", "h">>, Slice(table, 4, 10)),
         LAMBDA m : Bind(Unpack(<<"H">>, Slice(table, 34, 36)),
         LAMBDA n : Ok(<<m[1], m[2], m[3], n[1]>>))))

ParseMaxp(data, tables) ==
    Bind(Table(data, tables, "maxp"),
         LAMBDA table : Bind(Unpack(<<"H">>, Slice(table, 4, 6)),
         LAMBDA n : Ok(n[1])))

RECURSIVE ReadWidths(_, _, _, _)
ReadWidths(table, num_h_metrics, i, widths) ==
    IF i = num_h_metrics THEN Ok(widths)
    ELSE Bind(Unpack(<<"H", "H">>, Slice(table, 4 * i, 4 * i + 4)),
              LAMBDA m : ReadWidths(table, num_h_metrics, i + 1, Append(widths, m[1])))

ExtendWidths(widths, num_h_metrics, num_glyphs) ==
    IF num_glyphs > num_h_metrics
    THEN IF widths = <<>> THEN Raise("IndexError")
         ELSE Ok(widths \o Repeat(widths[Len(widths)], num_glyphs - num_h_metrics))
    ELSE Ok(widths)

ParseHmtx(data, tables, num_h_metrics, num_glyphs) ==
    Bind(Table(data, tables, "hmtx"),
         LAMBDA table : Bind(ReadWidths(table, num_h_metrics, 0, <<>>),
         LAMBDA widths : ExtendWidths(widths, num_h_metrics, num_glyphs)))

RECURSIVE FindSubtable(_, _, _, _)
FindSubtable(table, offset, num_tables, i) ==
    IF i = num_tables
    THEN Raise("RuntimeError: Unicode cmap subtable not found in font")
    ELSE Bind(Unpack(<<"H", "H", "I">>, Slice(table, 4 + i * 8, 12 + i * 8)),
              LAMBDA r : IF r[1] = 3 /\ r[2] \in {1, 10}
                         THEN Ok(offset + r[3])
                         ELSE FindSubtable(table, offset, num_tables, i + 1))

SegmentGlyph_delta_on_zero(data, offset, length, id_range_offset_offset, i, start, delta, ro, code) ==
    IF ro = 0
    THEN Ok(<<(code + delta) % 65536>>)
    ELSE Let1(id_range_offset_offset + 2 * i + ro + 2 * (code - start),
              LAMBDA glyph_index_offset :
                  IF glyph_index_offset >= offset + length
                  THEN Ok(<<>>)
                  ELSE Bind(Unpack(<<"H">>, Slice(data, glyph_index_offset,
                                                  glyph_index_offset + 2)),
                            LAMBDA g : Ok(<<(g[1] + delta) % 65536>>)))

\* the glyph of one code of segment i (0-based), <<>> when the code is skipped
SegmentGlyph(data, offset, length, id_range_offset_offset, i, start, delta, ro, code) ==
    IF ro = 0
    THEN Ok(<<(code + delta) % 65536>>)
    ELSE Let1(id_range_offset_offset + 2 * i + ro + 2 * (code - start),
              LAMBDA glyph_index_offset :
                  IF glyph_index_offset >= offset + length
                  THEN Ok(<<>>)
                  ELSE Bind(Unpack(<<"H">>, Slice(data, glyph_index_offset,
                                                  glyph_index_offset + 2)),
                            LAMBDA g : Ok(<<IF g[1] = 0 THEN 0
                                            ELSE (g[1] + delta) % 65536>>)))

\* cmap[code] = glyph for the codes of one segment or group that got a glyph
UpdateCmap(cmap0, results) ==
    IF \E code \in DOMAIN results : Failed(results[code])
    THEN Raise("struct.error")
    ELSE Let1({ code \in DOMAIN results : results[code].value # <<>> },
              LAMBDA mapped :
                  Ok([code \in DOMAIN cmap0 \cup mapped |->
                          IF code \in mapped THEN results[code].value[1]
                          ELSE cmap0[code]]))

RECURSIVE Format4Segments(_, _, _)
Format4Segments(t, i, cmap0) ==
    IF i = t.seg_count THEN Ok(cmap0)
    ELSE Bind(Let1([code \in t.start_count[i + 1]..t.end_count[i + 1] |->
                        SegmentGlyph(t.data, t.offset, t.length,
                                     t.id_range_offset_offset, i,
                                     t.start_count[i + 1], t.id_delta[i + 1],
                                     t.id_range_offset[i + 1], code)],
                   LAMBDA results : UpdateCmap(cmap0, results)),
              LAMBDA cmap1 : Format4Segments(t, i + 1, cmap1))

ParseCmapFormat4(data, offset) ==
    Bind(Unpack(<<"H", "H", "H">>, Slice(data, offset + 2, offset + 8)),
    LAMBDA h : Let2(h[3] \div 2, offset + 14,
    LAMBDA seg_count, end_offset :
    Bind(Unpack(Repeat("H", seg_count),
                Slice(data, end_offset, end_offset + 2 * seg_count)),
    LAMBDA end_count :
    Bind(Unpack(Repeat("H", seg_count),
                Slice(data, end_offset + 2 * seg_count + 2,
                      end_offset + 2 * seg_count + 2 + 2 * seg_count)),
    LAMBDA start_count :
    Bind(Unpack(Repeat("h", seg_count),
                Slice(data, end_offset + 4 * seg_count + 2,
                      end_offset + 6 * seg_count + 2)),
    LAMBDA id_delta :
    Bind(Unpack(Repeat("H", seg_count),
                Slice(data, end_offset + 6 * seg_count + 2,
                      end_offset + 8 * seg_count + 2)),
    LAMBDA id_range_offset :
        Format4Segments([data |-> data, offset |-> offset, length |-> h[1],
                         seg_count |-> seg_count, end_count |-> end_count,
                         start_count |-> start_count, id_delta |-> id_delta,
                         id_range_offset |-> id_range_offset,
                         id_range_offset_offset |-> end_offset + 6 * seg_count + 2],
                        0, EmptyDict)))))))

RECURSIVE Format12Groups(_, _, _)
Format12Groups(data, offset, i) ==
    IF i = 0 THEN Ok(EmptyDict)
    ELSE Bind(Format12Groups(data, offset, i - 1),
         LAMBDA cmap0 :
         Bind(Unpack(<<"I", "I", "I">>,
                     Slice(data, offset + 16 + 12 * (i - 1), offset + 16 + 12 * i)),
         LAMBDA g : UpdateCmap(cmap0, [code \in g[1]..g[2] |->
                                           Ok(<<g[3] + (code - g[1])>>)])))

ParseCmapFormat12(data, offset) ==
    Bind(Unpack(<<"H", "H">>, Slice(data, offset, offset + 4)),
    LAMBDA f : Bind(Unpack(<<"I", "I", "I">>, Slice(data, offset + 4, offset + 16)),
    LAMBDA h : Format12Groups(data, offset, h[3])))

ParseCmap(data, tables) ==
    Bind(Table(data, tables, "cmap"),
    LAMBDA table : Bind(Unpack(<<"H", "H">>, Slice(table, 0, 4)),
    LAMBDA h : Bind(FindSubtable(table, tables["cmap"][1], h[2], 0),
    LAMBDA preferred_subtable :
    Bind(Unpack(<<"H">>, Slice(data, preferred_subtable, preferred_subtable + 2)),
    LAMBDA format_type :
        IF format_type[1] = 4 THEN ParseCmapFormat4(data, preferred_subtable)
        ELSE IF format_type[1] = 12 THEN ParseCmapFormat12(data, preferred_subtable)
        ELSE Raise("RuntimeError: Unsupported cmap format")))))

ParseOs2(data, tables) ==
    Bind(Table(data, tables, "OS/2"),
    LAMBDA table : Bind(Unpack(<<"H">>, Slice(table, 0, 2)),
    LAMBDA version : Bind(Unpack(<<"h">>, Slice(table, 68, 70)),
    LAMBDA s_typo_ascender : Bind(Unpack(<<"h">>, Slice(table, 70, 72)),
    LAMBDA s_typo_descender :
        IF version[1] >= 2 /\ Len(table) >= 88
        THEN Bind(Unpack(<<"h">>, Slice(table, 88, 90)),
                  LAMBDA s_cap_height : Ok(<<s_typo_ascender[1], s_typo_descender[1],
                                             s_cap_height[1]>>))
        ELSE Ok(<<s_typo_ascender[1], s_typo_descender[1], s_typo_ascender[1]>>)))))

\* the italic angle in 1/65536 units: the code returns this value / 65536.0
ParsePost(data, tables) ==
    IF "post" \notin DOMAIN tables THEN Ok(0)
    ELSE Bind(Table(data, tables, "post"),
         LAMBDA table : Bind(Unpack(<<"l">>, Slice(table, 4, 8)),
         LAMBDA italic_angle_fixed : Ok(italic_angle_fixed[1])))

\* TrueTypeFont(path) over the bytes read from the path
TrueTypeFont(data) ==
    Bind(ParseOffsetTable(data),
    LAMBDA tables : Bind(ParseHead(data, tables),
    LAMBDA head : Bind(ParseHhea(data, tables),
    LAMBDA hhea : Bind(ParseMaxp(data, tables),
    LAMBDA num_glyphs : Bind(ParseHmtx(data, tables, hhea[4], num_glyphs),
    LAMBDA widths : Bind(ParseCmap(data, tables),
    LAMBDA parsed_cmap : Bind(ParseOs2(data, tables),
    LAMBDA os2 : Bind(ParsePost(data, tables),
    LAMBDA post :
        Ok([tables |-> tables,
            units_per_em |-> head.units_per_em,
            ascender |-> hhea[1], descender |-> hhea[2], line_gap |-> hhea[3],
            num_h_metrics |-> hhea[4],
            num_glyphs |-> num_glyphs,
            advance_widths |-> widths,
            cmap |-> parsed_cmap,
            s_typo_ascender |-> os2[1], s_typo_descender |-> os2[2],
            s_cap_height |-> os2[3],
            x_min |-> head.head_bbox[1], y_min |-> head.head_bbox[2],
            x_max |-> head.head_bbox[3], y_max |-> head.head_bbox[4],
            italic_angle |-> post])))))))))

(***************************************************************************)
(* Font files.  A font file is built from a description: the tags of its   *)
(* table directory in order, and the fields the parser reads from each     *)
(* table.  Every other byte is zero.                                       *)
(***************************************************************************)
Zeros(n) == [k \in 1..n |-> 0]

U16(v) == <<(v \div 256) % 256, v % 256>>

U32(v) == U16(v \div 65536) \o U16(v % 65536)

RECURSIVE Flatten(_, _)
Flatten(parts, k) == IF k = 0 THEN <<>> ELSE Flatten(parts, k - 1) \o parts[k]

Concat(parts) == Flatten(parts, Len(parts))

AsciiByte(ch) == AsciiTable[CHOOSE k \in 1..Len(AsciiTable) : AsciiTable[k][1] = ch][2]

TagBytes(tag) == [k \in 1..4 |-> AsciiByte(CharAt(tag, k))]

HeadTable(d) ==
    Zeros(18) \o U16(d.units_per_em) \o Zeros(16)
    \o Concat([k \in 1..4 |-> U16(d.bbox[k])]) \o Zeros(10)

HheaTable(d) ==
    Zeros(4) \o U16(d.ascender) \o U16(d.descender) \o U16(0) \o Zeros(24)
    \o U16(d.num_h_metrics)

MaxpTable(d) == Zeros(4) \o U16(d.num_glyphs)

HmtxTable(d) == Concat([k \in 1..Len(d.h_metrics) |-> U16(d.h_metrics[k]) \o U16(0)])

\* an OS/2 table of d.os2_length bytes
Os2Table(d) ==
    SubSeq(U16(d.os2_version) \o Zeros(66) \o U16(d.s_typo_ascender)
           \o U16(d.s_typo_descender) \o Zeros(16) \o U16(d.s_cap_height)
           \o Zeros(6),
           1, d.os2_length)

PostTable(d) == Zeros(4) \o U32(d.italic_angle) \o Zeros(24)

\* segments are <<start, end, delta, range offset>>; the declared length
\* leaves out the last d.cmap_cut bytes of the subtable
Format4Subtable(d) ==
    Let2(Len(d.segments), Concat([k \in 1..Len(d.glyph_array) |-> U16(d.glyph_array[k])]),
         LAMBDA n, glyphs :
             U16(4) \o U16(16 + 8 * n + Len(glyphs) - d.cmap_cut) \o U16(0)
             \o U16(2 * n) \o Zeros(6)
             \o Concat([k \in 1..n |-> U16(d.segments[k][2])]) \o U16(0)
             \o Concat([k \in 1..n |-> U16(d.segments[k][1])])
             \o Concat([k \in 1..n |-> U16(d.segments[k][3])])
             \o Concat([k \in 1..n |-> U16(d.segments[k][4])])
             \o glyphs)

\* groups are <<start char, end char, start glyph>>
Format12Subtable(d) ==
    U16(12) \o U16(0) \o U32(16 + 12 * Len(d.segments)) \o U32(0)
    \o U32(Len(d.segments))
    \o Concat([k \in 1..Len(d.segments) |->
                   U32(d.segments[k][1]) \o U32(d.segments[k][2])
                   \o U32(d.segments[k][3])])

CmapTable(d) ==
    U16(0) \o U16(1) \o U16(d.platform_id) \o U16(d.encoding_id) \o U32(12)
    \o (IF d.cmap_format = 4 THEN Format4Subtable(d)
        ELSE IF d.cmap_format = 12 THEN Format12Subtable(d)
        ELSE U16(d.cmap_format) \o Zeros(8))

TableBytes(d, tag) ==
    CASE tag = "head" -> HeadTable(d)
      [] tag = "hhea" -> HheaTable(d)
      [] tag = "maxp" -> MaxpTable(d)
      [] tag = "hmtx" -> HmtxTable(d)
      [] tag = "cmap" -> CmapTable(d)
      [] tag = "OS/2" -> Os2Table(d)
      [] tag = "post" -> PostTable(d)

RECURSIVE TableOffset(_, _)
TableOffset(bodies, k) ==
    IF k = 1 THEN 12 + 16 * Len(bodies)
    ELSE TableOffset(bodies, k - 1) + Len(bodies[k - 1])

\* the bytes of the file, without its last d.file_cut bytes
FontFile(d) ==
    Let1([k \in 1..Len(d.tags) |-> TableBytes(d, d.tags[k])],
         LAMBDA bodies :
             Let1(U32(65536) \o U16(Len(bodies)) \o Zeros(6)
                  \o Concat([k \in 1..Len(bodies) |->
                                 TagBytes(d.tags[k]) \o U32(0)
                                 \o U32(TableOffset(bodies, k))
                                 \o U32(Len(bodies[k]))])
                  \o Concat(bodies),
                  LAMBDA whole : SubSeq(whole, 1, Len(whole) - d.file_cut)))

\* the description of the font the digest is set in: glyph 0 is notdef,
\* 1 "a", 2 "b", 3 space, 4 the bullet, 5 "/", 6..8 the digits 1..3
DigestFont ==
    [tags |-> <<"head", "hhea", "maxp", "hmtx", "cmap", "OS/2", "post">>,
     units_per_em |-> 1000, bbox |-> <<-1021, -463, 1793, 1232>>,
     ascender |-> 928, descender |-> -236,
     num_h_metrics |-> 9, num_glyphs |-> 9,
     h_metrics |-> <<600, 20000, 50000, 8328, 1000, 1200, 1200, 1200, 1200>>,
     os2_version |-> 2, os2_length |-> 96,
     s_typo_ascender |-> 760, s_typo_descender |-> -240, s_cap_height |-> 730,
     italic_angle |-> 0,
     platform_id |-> 3, encoding_id |-> 1, cmap_format |-> 4, cmap_cut |-> 0,
     segments |-> <<<<32, 32, -29, 0>>, <<47, 47, -42, 0>>, <<49, 51, -43, 0>>,
                    <<97, 98, -96, 0>>, <<8226, 8226, -8222, 0>>,
                    <<65535, 65535, 1, 0>>>>,
     glyph_array |-> <<>>,
     file_cut |-> 0]

\* the TrueTypeFont of that file
DigestFontParsed == TrueTypeFont(FontFile(DigestFont)).value

\* before TrueTypeFont(FONT_PATH) has returned there is no font
NoFont == [tables |-> EmptyDict]

(***************************************************************************)
(* The parsed font the encoder wraps (TrueTypeFont fields).  Glyph ids are *)
(* 0-based in the code; advance_widths[g + 1] is the width of glyph g.     *)
(* Glyph 0 is notdef, 1 "a", 2 "b", 3 space, 4 the bullet, 5 "/", 6..8 the *)
(* digits 1..3.  At 10 pt "a a" is exactly as wide as the text area and    *)
(* "b" is wider than it.                                                   *)
(***************************************************************************)
units_per_em == font.units_per_em

advance_widths == font.advance_widths

cmap == font.cmap

(***************************************************************************)
(* FontEncoder.  The usage state is the record                             *)
(* [used_chars, char_set, char_to_gid, used_glyphs].                       *)
(***************************************************************************)
EncoderInit ==
    [used_chars |-> "", char_set |-> {}, char_to_gid |-> <<>>, used_glyphs |-> {}]

\* self.font.cmap.get(code, 0)
GlyphForChar(ch) == IF Ord(ch) \in DOMAIN cmap THEN cmap[Ord(ch)] ELSE 0

EnsureChar_without_seen_test(enc, ch) ==
    [used_chars  |-> enc.used_chars \o ch,
     char_set    |-> enc.char_set \cup {ch},
     char_to_gid |-> [c \in DOMAIN enc.char_to_gid \cup {ch} |-> GlyphForChar(c)],
     used_glyphs |-> enc.used_glyphs \cup {GlyphForChar(ch)}]

\* one iteration of the loop of ensure_text
EnsureChar(enc, ch) ==
    IF ch \in enc.char_set THEN enc
    ELSE [used_chars  |-> enc.used_chars \o ch,
          char_set    |-> enc.char_set \cup {ch},
          char_to_gid |-> enc.char_to_gid @@ (ch :> GlyphForChar(ch)),
          used_glyphs |-> enc.used_glyphs \cup {GlyphForChar(ch)}]

RECURSIVE EnsureLoop(_, _, _)
EnsureLoop(enc, text, i) ==
    IF i > Len(text) THEN enc
    ELSE Let1(EnsureChar(enc, CharAt(text, i)),
              LAMBDA enc1 : EnsureLoop(enc1, text, i + 1))

\* the usage state after ensure_text(text)
EnsureText(enc, text) == Let2(enc, text, LAMBDA e, t : EnsureLoop(e, t, 1))

RECURSIVE MeasureLoop(_, _, _, _)
\* the loop of measure_text: <<usage state, total in font units>>
MeasureLoop(enc, text, i, total) ==
    IF i > Len(text) THEN <<enc, total>>
    ELSE Let1(IF CharAt(text, i) \in DOMAIN enc.char_to_gid THEN enc
              ELSE EnsureText(enc, CharAt(text, i)),
              LAMBDA enc1 :
                  Let1(total + advance_widths[enc1.char_to_gid[CharAt(text, i)] + 1],
                       LAMBDA total1 : MeasureLoop(enc1, text, i + 1, total1)))

\* the usage state after measure_text(text, font_size)
MeasureEnc(enc, text) == Let2(enc, text, LAMBDA e, t : MeasureLoop(e, t, 1, 0)[1])

\* measure_text(text, font_size): total / units_per_em * font_size, in
\* millipoints for font_size in millipoints
MeasureText(enc, text, font_size) ==
    Let2(enc, text, LAMBDA e, t :
        (MeasureLoop(e, t, 1, 0)[2] * font_size) \div units_per_em)

HexDigit(n) == CharAt("0123456789ABCDEF", n + 1)

RECURSIVE HexDigits(_)
HexDigits(n) == IF n < 16 THEN HexDigit(n) ELSE HexDigits(n \div 16) \o HexDigit(n % 16)

\* f"{gid:04X}"
Format04X(n) == ZeroPad(HexDigits(n), 4)

RECURSIVE HexBuffer(_, _, _)
HexBuffer(enc, text, i) ==
    IF i > Len(text) THEN ""
    ELSE Format04X(enc.char_to_gid[CharAt(text, i)]) \o HexBuffer(enc, text, i + 1)

\* the usage state after encode_text(text)
EncodeEnc(enc, text) == IF text # "" THEN EnsureText(enc, text) ELSE enc

\* the string encode_text(text) returns
EncodeText(enc, text) ==
    Let2(EncodeEnc(enc, text), text, LAMBDA e, t : "<" \o HexBuffer(e, t, 1) \o ">")

(***************************************************************************)
(* Page geometry, in millipoints                                           *)
(***************************************************************************)
PAGE_WIDTH == 595280

PAGE_HEIGHT == 841890

MARGIN_LEFT == 56000

MARGIN_RIGHT == 56000

MARGIN_TOP == 72000

MARGIN_BOTTOM == 64000

\* line_spacing_factor = 1.45, in hundredths
line_spacing_factor == 145

\* bullet_indent = 14.0
bullet_indent == 14000

\* the prefix of a bullet paragraph
BulletPrefix == BULLET \o " "

(***************************************************************************)
(* LayoutEngine.  The engine state is the record                           *)
(* [pages, current_page, cursor_y, enc].  A command is a record: cmd is    *)
(* the string the code appends, op its operator, and a text placement also *)
(* carries its size, x, y and encoded text as numbers.  A colour is a      *)
(* triple in thousandths, None is <<>>.                                    *)
(***************************************************************************)
NoColor == <<>>

Paragraph(text, kind, size, space_before, space_after, color, bullet, indent) ==
    [text |-> text, kind |-> kind, size |-> size, space_before |-> space_before,
     space_after |-> space_after, color |-> color, bullet |-> bullet,
     indent |-> indent]

LayoutInit ==
    [pages |-> <<>>, current_page |-> 0, cursor_y |-> 0, enc |-> EncoderInit]

\* variant: the cursor is reset to the top edge of the page, not the margin
NewPage_no_top_margin(st) ==
    [st EXCEPT !.pages = Append(st.pages, <<>>),
               !.current_page = Len(st.pages) + 1,
               !.cursor_y = PAGE_HEIGHT]

NewPage(st) ==
    [st EXCEPT !.pages = Append(st.pages, <<>>),
               !.current_page = Len(st.pages) + 1,
               !.cursor_y = PAGE_HEIGHT - MARGIN_TOP]

\* variant: a page is started whether or not there is a current page
EnsurePage_always_new(st) == NewPage(st)

EnsurePage(st) == IF st.current_page = 0 THEN NewPage(st) ELSE st

AppendCommand(st, command) ==
    [st EXCEPT !.pages[st.current_page] = Append(@, command)]

\* f"{v:.3f}" for v in thousandths
Format3f(v) == ToString(v \div 1000) \o "." \o ZeroPad(ToString(v % 1000), 3)

\* f"{v:.2f}" for v >= 0 in millipoints; a half is rounded up, where the code
\* rounds the binary float
Format2f(v) ==
    LET c == (v + 5) \div 10
    IN  ToString(c \div 100) \o "." \o ZeroPad(ToString(c % 100), 2)

\* the colour command _set_color appends
ColorCommand(color) ==
    [op |-> "rg",
     cmd |-> Format3f(color[1]) \o " " \o Format3f(color[2]) \o " "
             \o Format3f(color[3]) \o " rg"]

\* the command that switches back to black
BlackCommand == [op |-> "rg", cmd |-> "0 0 0 rg"]

\* the text placement add_paragraph appends; text is the encoded line
TextCommand(size, x, y, text) ==
    [op |-> "Tj", size |-> size, x |-> x, y |-> y, text |-> text,
     cmd |-> "BT /F1 " \o Format2f(size) \o " Tf 1 0 0 1 " \o Format2f(x)
             \o " " \o Format2f(y) \o " Tm " \o text \o " Tj ET"]

SetColor(st, color) ==
    IF color = NoColor THEN st
    ELSE AppendCommand(st, ColorCommand(color))

\* variant: the comparison is projected < available_width
FitsLine_strict(projected, w) ==
    projected < w.available_width \/ ~StripNonEmpty(w.line_text)

\* the test of line 464: the word goes on the current line
FitsLine(projected, w) ==
    projected <= w.available_width \/ ~StripNonEmpty(w.line_text)

\* variant: continuation lines of a bullet paragraph keep the paragraph indent
ContinuationIndent_no_bullet(p) == p.indent

\* line 472: the indent of the lines after the first
ContinuationIndent(p) == p.indent + (IF p.bullet THEN bullet_indent ELSE 0)

\* variant: the line that is full is not kept when the next one is started
FlushLine_dropped(w) == w.lines

\* line 471: lines.append((line_indent, line_text))
FlushLine(w) == Append(w.lines, [indent |-> w.line_indent, text |-> w.line_text])

\* one iteration of the wrap loop of add_paragraph (lines 461-475); w is
\* [line_text, line_width, line_indent, available_width, lines]
WrapWord(enc, p, w, word, space_width, max_width) ==
    Let1(MeasureText(enc, word, p.size), LAMBDA word_width :
        LET add_space == StripNonEmpty(w.line_text)
            projected == w.line_width + (IF add_space THEN space_width ELSE 0)
                         + word_width
        IN  IF FitsLine(projected, w)
            THEN [w EXCEPT
                     !.line_text  = (IF add_space THEN w.line_text \o " "
                                     ELSE w.line_text) \o word,
                     !.line_width = (IF add_space THEN w.line_width + space_width
                                     ELSE w.line_width) + word_width]
            ELSE [line_text       |-> word,
                  line_width      |-> word_width,
                  line_indent     |-> ContinuationIndent(p),
                  available_width |-> max_width - ContinuationIndent(p),
                  lines           |-> FlushLine(w)])

RECURSIVE WrapLoop(_, _, _, _, _, _, _)
\* the wrap loop over words[i..]: <<usage state, w>>
WrapLoop(enc, p, words, i, w, space_width, max_width) ==
    IF i > Len(words) THEN <<enc, w>>
    ELSE Let2(MeasureEnc(enc, words[i]),
              WrapWord(enc, p, w, words[i], space_width, max_width),
              LAMBDA enc1, w1 :
                  WrapLoop(enc1, p, words, i + 1, w1, space_width, max_width))

\* lines 445-477 of add_paragraph for the non-empty text: the usage state,
\* the words and the lines [indent, text]
WrapParagraph(enc, p, text) ==
    LET prefix    == IF p.bullet THEN BulletPrefix ELSE ""
        max_width == PAGE_WIDTH - MARGIN_LEFT - MARGIN_RIGHT
    IN  Let3(Split(text),
             MeasureEnc(IF p.bullet THEN EnsureText(enc, prefix) ELSE enc, " "),
             MeasureText(enc, " ", p.size),
             LAMBDA words, enc2, space_width :
        Let1(WrapLoop(IF prefix # "" THEN MeasureEnc(enc2, prefix) ELSE enc2,
                      p, words, 1,
                      [line_text       |-> prefix,
                       line_width      |-> IF prefix # ""
                                           THEN MeasureText(enc2, prefix, p.size)
                                           ELSE 0,
                       line_indent     |-> p.indent,
                       available_width |-> max_width - p.indent,
                       lines           |-> <<>>],
                      space_width, max_width),
             LAMBDA wrapped :
                 [enc   |-> wrapped[1],
                  words |-> words,
                  lines |-> IF wrapped[2].line_text # ""
                            THEN FlushLine(wrapped[2])
                            ELSE wrapped[2].lines]))

\* variant: the page break test is cursor_y < MARGIN_BOTTOM
NeedsNewPage_margin_only(st, p) == st.cursor_y < MARGIN_BOTTOM

\* the test of line 480
NeedsNewPage(st, p) == st.cursor_y < MARGIN_BOTTOM + p.size

\* lines 482-492: one line drawn at the cursor of st, and the cursor lowered
DrawLine(st, p, line) ==
    LET leading == (p.size * line_spacing_factor) \div 100
        x       == MARGIN_LEFT + line.indent
        y       == st.cursor_y
    IN  Let1(AppendCommand(SetColor(st, p.color),
                           TextCommand(p.size, x, y, EncodeText(st.enc, line.text))),
             LAMBDA st3 :
                 [(IF p.color # NoColor THEN AppendCommand(st3, BlackCommand)
                   ELSE st3)
                  EXCEPT !.enc = EncodeEnc(st.enc, line.text),
                         !.cursor_y = @ - leading])

RECURSIVE DrawLoop(_, _, _, _, _)
\* the draw loop of add_paragraph (lines 479-492) over lines[idx..]:
\* <<engine state, placements>>, a placement being the page and y of a line
\* and the cursor the loop found before drawing it
DrawLoop(st, p, lines, idx, placed) ==
    IF idx > Len(lines) THEN <<st, placed>>
    ELSE Let1(IF NeedsNewPage(st, p) THEN NewPage(st) ELSE st, LAMBDA st1 :
             Let2(DrawLine(st1, p, lines[idx]),
                  Append(placed, [page |-> st1.current_page, y |-> st1.cursor_y,
                                  cursor_before |-> st.cursor_y]),
                  LAMBDA st2, placed1 : DrawLoop(st2, p, lines, idx + 1, placed1)))

\* add_paragraph: <<engine state, log entry>>
AddParagraphOp(st0, p0) ==
    Let3(EnsurePage(st0), p0, ReplaceNbsp(p0.text), LAMBDA st1, p, text :
        IF text = ""
        THEN << [st1 EXCEPT !.cursor_y = @ - (p.space_before + p.space_after)],
                [paragraph |-> p, words |-> <<>>, lines |-> <<>>, placed |-> <<>>] >>
        ELSE
        Let1(WrapParagraph(st1.enc, p, text), LAMBDA wr :
            Let1(DrawLoop([st1 EXCEPT !.cursor_y = @ - p.space_before,
                                      !.enc = wr.enc],
                          p, wr.lines, 1, <<>>),
                 LAMBDA drawn :
                     LET leading == (p.size * line_spacing_factor) \div 100
                     IN  << [drawn[1] EXCEPT !.cursor_y =
                                (@ + (leading - (p.size * line_spacing_factor) \div 100))
                                - p.space_after],
                            [paragraph |-> p, words |-> wr.words, lines |-> wr.lines,
                             placed |-> drawn[2]] >>)))

\* the Paragraph add_heading builds
HeadingParagraph(st, text, level) ==
    Paragraph(text, "heading",
              IF level = 1 THEN 26000 ELSE IF level = 2 THEN 17000 ELSE 14000,
              IF level = 1 /\ Len(st.pages) = 0 THEN 0 ELSE 24000,
              IF level = 1 THEN 16000 ELSE 12000,
              IF level <= 2 THEN <<50, 240, 550>> ELSE <<100, 280, 600>>,
              FALSE, 0)

\* the Paragraph add_label builds
LabelParagraph(text) ==
    Paragraph(Upper(text), "label", 11500, 6000, 6000, <<160, 380, 660>>, FALSE, 0)

\* the Paragraph add_bullet_list builds for one item
BulletParagraph(item) ==
    Paragraph(item, "body", 11500, 0, 6000, NoColor, TRUE, 6000)

RECURSIVE BulletLoop(_, _, _, _)
\* the loop of add_bullet_list over items[i..]: <<engine state, log>>
BulletLoop(st, items, i, entries) ==
    IF i > Len(items) THEN <<st, entries>>
    ELSE Let1(AddParagraphOp(st, BulletParagraph(items[i])), LAMBDA r :
             Let2(r[1], Append(entries, r[2]),
                  LAMBDA st1, entries1 : BulletLoop(st1, items, i + 1, entries1)))

\* add_bullet_list: <<engine state, log>>
AddBulletListOp(st, items) ==
    Let1(BulletLoop(st, items, 1, <<>>), LAMBDA r :
        << IF Len(items) > 0 THEN [r[1] EXCEPT !.cursor_y = @ - 4000] ELSE r[1],
           r[2] >>)

\* add_spacing
AddSpacingOp(st, amount) == [st EXCEPT !.cursor_y = @ - amount]

(***************************************************************************)
(* The document under construction: [objects, returned], returned being    *)
(* the ids the calls have returned so far.                                 *)
(***************************************************************************)
\* add_object
AddObjectOp(pdf, dictionary) ==
    Let1(AppendObject(pdf.objects, ObjectBytes(dictionary)), LAMBDA objs :
        [objects |-> objs, returned |-> Append(pdf.returned, AppendedId(objs))])

\* add_stream
AddStreamOp(pdf, dictionary, data, compress) ==
    Let1(AppendObject(pdf.objects, StreamBytes(dictionary, data, compress)),
         LAMBDA objs :
        [objects |-> objs, returned |-> Append(pdf.returned, AppendedId(objs))])

\* the id the last call returned
LastId(pdf) == pdf.returned[Len(pdf.returned)]

(***************************************************************************)
(* FontEncoder.build_pdf_objects                                           *)
(***************************************************************************)
\* the remaining fields of the parsed font, in font units
s_typo_ascender == font.s_typo_ascender

s_typo_descender == font.s_typo_descender

s_cap_height == font.s_cap_height

x_min == font.x_min

y_min == font.y_min

x_max == font.x_max

y_max == font.y_max

RECURSIVE FractionDigits(_)
FractionDigits(r) ==
    IF r = 0 THEN ""
    ELSE ToString((r * 10) \div 65536) \o FractionDigits((r * 10) % 65536)

\* str(fixed / 65536.0)
FloatStr(fixed) ==
    Let1(IF fixed < 0 THEN 0 - fixed ELSE fixed, LAMBDA a :
        (IF fixed < 0 THEN "-" ELSE "") \o ToString(a \div 65536) \o "."
        \o (IF a % 65536 = 0 THEN "0" ELSE FractionDigits(a % 65536)))

\* str(self.font.italic_angle)
italic_angle == FloatStr(font.italic_angle)

\* self.font.data: three bytes stand for the bytes of the font file in the
\* stream that embeds it
font_data == "TTF"

base_font_name == "/DejaVuSans"

\* int(round(n / d)) for d > 0: round() takes a half to the even neighbour
RoundDiv(n, d) ==
    LET q == n \div d
        r == n % d
    IN  IF 2 * r > d THEN q + 1
        ELSE IF 2 * r < d THEN q
        ELSE IF q % 2 = 0 THEN q ELSE q + 1

\* _widths_1000: glyph -> width in thousandths of the em
Widths1000(enc) ==
    [g \in enc.used_glyphs |-> RoundDiv(advance_widths[g + 1] * 1000, units_per_em)]

Max(S) == CHOOSE m \in S : \A x \in S : x <= m

Min(S) == CHOOSE m \in S : \A x \in S : m <= x

RECURSIVE SortedInts(_)
\* sorted(S) for a set of integers
SortedInts(S) ==
    IF S = {} THEN <<>>
    ELSE Let1(S \ {Min(S)}, LAMBDA rest : <<Min(S)>> \o SortedInts(rest))

RECURSIVE SortedChars(_)
\* sorted(chars, key=ord) for distinct characters
SortedChars(S) ==
    IF S = {} THEN <<>>
    ELSE Let1(CHOOSE c \in S : \A d \in S : Ord(c) <= Ord(d), LAMBDA c :
             Let1(S \ {c}, LAMBDA rest : <<c>> \o SortedChars(rest)))

\* one byte as one character; the model font has fewer than 16 glyphs
ByteChar(b) == CharAt("0123456789ABCDEF", b + 1)

\* struct.pack(">H", value)
PackH(value) == ByteChar(value \div 256) \o ByteChar(value % 256)

RECURSIVE CidToGidFrom(_, _, _)
\* the loop of lines 231-233 over glyph..max_gid
CidToGidFrom(enc, glyph, max_gid) ==
    IF glyph > max_gid THEN ""
    ELSE PackH(IF glyph \in enc.used_glyphs THEN glyph ELSE 0)
         \o CidToGidFrom(enc, glyph + 1, max_gid)

\* the CIDToGIDMap payload
CidToGid(enc) ==
    Let1(Widths1000(enc), LAMBDA widths :
        CidToGidFrom(enc, 0, IF DOMAIN widths # {} THEN Max(DOMAIN widths) ELSE 0))

\* ch.encode("utf-16-be").hex().upper() for a character of the basic plane
Utf16Hex(ch) == Format04X(Ord(ch))

\* the bfchar entries of the ToUnicode CMap
ToUnicodeEntries(enc) ==
    Let1(SortedChars(enc.char_set), LAMBDA chars :
        [i \in 1..Len(chars) |->
            "<" \o Format04X(enc.char_to_gid[chars[i]]) \o "> <"
                \o Utf16Hex(chars[i]) \o ">"])

RECURSIVE ChunksFrom(_, _)
\* the chunks of at most 100 entries, from the 0-based index i on
ChunksFrom(entries, i) ==
    IF i >= Len(entries) THEN ""
    ELSE Let1(SubSeq(entries, i + 1, Min({i + 100, Len(entries)})), LAMBDA chunk :
             ToString(Len(chunk)) \o " beginbfchar\n" \o Join("\n", chunk)
                 \o "\nendbfchar\n" \o ChunksFrom(entries, i + 100))

\* cmap_content
CMapContent(enc) ==
    "/CIDInit /ProcSet findresource begin\n"
    \o "12 dict begin\n"
    \o "begincmap\n"
    \o "/CIDSystemInfo << /Registry (Adobe) /Ordering (UCS) /Supplement 0 >> def\n"
    \o "/CMapName /Adobe-Identity-UCS def\n"
    \o "/CMapType 2 def\n"
    \o "1 begincodespacerange\n"
    \o "<0000> <FFFF>\n"
    \o "endcodespacerange\n"
    \o Let1(ToUnicodeEntries(enc), LAMBDA entries : ChunksFrom(entries, 0))
    \o "endcmap\n"
    \o "CMapName currentdict /CMap defineresource pop\n"
    \o "end\nend\n"

\* widths.get(self.char_to_gid.get(self.space_char, 0), 600)
DefaultWidth(enc) ==
    LET glyph  == IF " " \in DOMAIN enc.char_to_gid THEN enc.char_to_gid[" "] ELSE 0
        widths == Widths1000(enc)
    IN  IF glyph \in DOMAIN widths THEN widths[glyph] ELSE 600

SkipEntry_also_glyph_0(glyph, width, default_width) == width = default_width

\* the test of the loop over the widths that leaves a glyph out
SkipEntry(glyph, width, default_width) == width = default_width /\ glyph # 0

\* w_entries: the glyphs in ascending order, without those of default width
WEntries(enc) ==
    Let3(Widths1000(enc), DefaultWidth(enc), SortedInts(enc.used_glyphs),
         LAMBDA widths, default_width, glyphs :
             LET kept == SelectSeq(glyphs, LAMBDA g :
                             ~SkipEntry(g, widths[g], default_width))
             IN  [i \in 1..Len(kept) |->
                     ToString(kept[i]) \o " " \o ToString(widths[kept[i]])])

\* w_array
WArray(enc) == "[" \o Join(" ", WEntries(enc)) \o "]"

\* the dictionary of the font descriptor
FontDescriptorDict(font_file_obj) ==
    << <<"Type", "/FontDescriptor">>,
       <<"FontName", base_font_name>>,
       <<"Flags", "4">>,
       <<"Ascent", ToString(RoundDiv(s_typo_ascender * 1000, units_per_em))>>,
       <<"Descent", ToString(RoundDiv(s_typo_descender * 1000, units_per_em))>>,
       <<"CapHeight", ToString(RoundDiv(s_cap_height * 1000, units_per_em))>>,
       <<"ItalicAngle", italic_angle>>,
       <<"StemV", "80">>,
       <<"FontBBox", "[" \o ToString(RoundDiv(x_min * 1000, units_per_em))
                     \o " " \o ToString(RoundDiv(y_min * 1000, units_per_em))
                     \o " " \o ToString(RoundDiv(x_max * 1000, units_per_em))
                     \o " " \o ToString(RoundDiv(y_max * 1000, units_per_em))
                     \o "]">>,
       <<"FontFile2", ToString(font_file_obj) \o " 0 R">> >>

\* the dictionary of the CIDFontType2 font
DescendantDict(enc, font_descriptor_obj, cid_map_obj) ==
    << <<"Type", "/Font">>,
       <<"Subtype", "/CIDFontType2">>,
       <<"BaseFont", base_font_name>>,
       <<"CIDSystemInfo",
         "<< /Registry (Adobe) /Ordering (Identity) /Supplement 0 >>">>,
       <<"FontDescriptor", ToString(font_descriptor_obj) \o " 0 R">>,
       <<"DW", ToString(DefaultWidth(enc))>>,
       <<"W", WArray(enc)>>,
       <<"CIDToGIDMap", ToString(cid_map_obj) \o " 0 R">> >>

\* the dictionary of the Type0 font
FontDict(descendant_obj, to_unicode_obj) ==
    << <<"Type", "/Font">>,
       <<"Subtype", "/Type0">>,
       <<"BaseFont", base_font_name>>,
       <<"Encoding", "/Identity-H">>,
       <<"DescendantFonts", "[" \o ToString(descendant_obj) \o " 0 R]">>,
       <<"ToUnicode", ToString(to_unicode_obj) \o " 0 R">> >>

\* build_pdf_objects: [pdf, enc, font_obj]
BuildPdfObjects(enc0, pdf0) ==
    Let1(IF enc0.used_chars = "" THEN EnsureText(enc0, " ") ELSE enc0, LAMBDA enc :
    Let1(AddStreamOp(pdf0, <<>>, CidToGid(enc), TRUE), LAMBDA pdf1 :
    Let1(AddStreamOp(pdf1, <<>>, CMapContent(enc), TRUE), LAMBDA pdf2 :
    Let1(AddStreamOp(pdf2, << <<"Length1", ToString(Len(font_data))>> >>,
                     font_data, TRUE), LAMBDA pdf3 :
    Let1(AddObjectOp(pdf3, FontDescriptorDict(LastId(pdf3))), LAMBDA pdf4 :
    Let1(AddObjectOp(pdf4, DescendantDict(enc, LastId(pdf4), LastId(pdf1))),
         LAMBDA pdf5 :
    Let1(AddObjectOp(pdf5, FontDict(LastId(pdf5), LastId(pdf2))), LAMBDA pdf6 :
        [pdf |-> pdf6, enc |-> enc, font_obj |-> LastId(pdf6)])))))))

(***************************************************************************)
(* build_pdf                                                               *)
(***************************************************************************)
\* stand-ins for the three fixed texts of the title block
TitleText == "a"

IntroText == "a a a"

OutlineText == "a a"

\* lines 803-826: the heading and the two paragraphs, <<engine state, log>>
LayoutTitleOp(st0) ==
    Let1(AddParagraphOp(st0, HeadingParagraph(st0, TitleText, 1)), LAMBDA r1 :
    Let1(AddParagraphOp(r1[1], Paragraph(IntroText, "body", 12500, 0, 18000,
                                         NoColor, FALSE, 0)), LAMBDA r2 :
    Let1(AddParagraphOp(r2[1], Paragraph(OutlineText, "body", 12500, 0, 24000,
                                         NoColor, FALSE, 0)), LAMBDA r3 :
        << r3[1], r3[2] >>)))

\* f"{idx} / {total_pages}"
PageLabel(idx, total_pages) == ToString(idx) \o " / " \o ToString(total_pages)

\* the three commands of lines 869-873 for one page
PageNumberCommands(enc, idx, total_pages) ==
    Let2(PageLabel(idx, total_pages),
         MeasureText(enc, PageLabel(idx, total_pages), 9000),
         LAMBDA page_label, width :
             LET x    == (PAGE_WIDTH - width) \div 2
                 y    == MARGIN_BOTTOM \div 2
                 text == EncodeText(MeasureEnc(enc, page_label), page_label)
             IN  << [op |-> "rg", cmd |-> "0.45 0.45 0.45 rg"],
                    [op |-> "Tj", size |-> 9000, x |-> x, y |-> y, text |-> text,
                     cmd |-> "BT /F1 9 Tf 1 0 0 1 " \o Format2f(x) \o " "
                             \o Format2f(y) \o " Tm " \o text \o " Tj ET"],
                    BlackCommand >>)

RECURSIVE PageNumbersLoop(_, _)
\* the loop of lines 864-873 over the pages idx.. of st
PageNumbersLoop(st, idx) ==
    IF idx > Len(st.pages) THEN st
    ELSE Let1([st EXCEPT
                  !.pages[idx] = @ \o PageNumberCommands(st.enc, idx, Len(st.pages)),
                  !.enc = EncodeEnc(MeasureEnc(st.enc,
                                               PageLabel(idx, Len(st.pages))),
                                    PageLabel(idx, Len(st.pages)))],
              LAMBDA st1 : PageNumbersLoop(st1, idx + 1))

\* "\n".join(page["commands"])
PageContent(commands) == Join("\n", [i \in 1..Len(commands) |-> commands[i].cmd])

\* the dictionary of a page object
PageDict(content_obj, font_obj) ==
    << <<"Type", "/Page">>,
       <<"Parent", "2 0 R">>,
       <<"MediaBox", "[0 0 " \o Format2f(PAGE_WIDTH) \o " " \o Format2f(PAGE_HEIGHT)
                     \o "]">>,
       <<"Contents", ToString(content_obj) \o " 0 R">>,
       <<"Resources", "<< /Font << /F1 " \o ToString(font_obj) \o " 0 R >> >>">> >>

\* the dictionary of the page tree
PagesDict(pages_objects) ==
    << <<"Type", "/Pages">>,
       <<"Kids", "[" \o Join(" ", [i \in 1..Len(pages_objects) |->
                                      ToString(pages_objects[i]) \o " 0 R"])
                 \o "]">>,
       <<"Count", ToString(Len(pages_objects))>> >>

\* the dictionary of the catalog
CatalogDict(pages_obj) ==
    << <<"Type", "/Catalog">>, <<"Pages", ToString(pages_obj) \o " 0 R">> >>

(***************************************************************************)
(* Initial state                                                           *)
(***************************************************************************)
\* the locals of build_pdf before they are assigned; page counts the
\* iterations of the loop over layout.pages
BuildInit ==
    [font_obj |-> 0, page |-> 0, pages_objects |-> <<>>, pages_obj |-> 0,
     catalog_obj |-> 0]

\* a fresh PDFDocument, FontEncoder and LayoutEngine
Init ==
    /\ objects = <<>>
    /\ trailer_extra = <<>>
    /\ file = NoFile
    /\ returned = <<>>
    /\ write_root = 0
    /\ encoder = EncoderInit
    /\ pages = LayoutInit.pages
    /\ current_page = LayoutInit.current_page
    /\ cursor_y = LayoutInit.cursor_y
    /\ nops = 0
    /\ first_op = [name |-> "none"]
    /\ last_op = [name |-> "none"]
    /\ log = <<>>
    /\ build = BuildInit
    /\ error = ""

(***************************************************************************)
(* Inputs                                                                  *)
(***************************************************************************)
Dicts == { <<>>,
           << <<"Type", "/Catalog">>, <<"Pages", "1 0 R">> >> }

Payloads == { "", "q\nQ" }

\* the dictionaries handed to add_stream: those above, and one in which the
\* caller has put a Length and a Filter
StreamDicts == Dicts \cup { << <<"Length", "99">>, <<"Filter", "/Crypt">> >> }

TrailerEntries == { <<"Info", "1 0 R">> }

Texts == { "", NBSP, "a", "a a a", "a b a", " ab" \o NBSP \o "a " }

HeadingTexts == { NBSP, "a a a" }

LabelTexts == { "a b" }

ItemTexts == { "", "a b" }

\* <<size, space_before, space_after, color, bullet, indent>>
ParagraphStyles ==
    { <<10000, 0, 10000, NoColor, FALSE, 0>>,
      <<10000, 675000, 10000, <<450, 450, 450>>, FALSE, 0>>,
      <<11500, 0, 6000, NoColor, TRUE, 6000>> }

SpacingAmounts == { 6000, 720000 }

\* the sequences over S of length at most n
SeqsUpTo(S, n) == UNION { [1..k -> S] : k \in 0..n }

\* a font of three glyphs: 0 notdef, 1 space, 2 "a"; "a" is as wide as the
\* space and notdef is not 600 thousandths of the em wide; the italic angle
\* is -11 degrees
SmallFont ==
    [DigestFont EXCEPT !.num_h_metrics = 3, !.num_glyphs = 3,
                       !.h_metrics = <<500, 250, 250>>,
                       !.italic_angle = -720896,
                       !.segments = <<<<32, 32, -31, 0>>, <<97, 97, -95, 0>>,
                                      <<65535, 65535, 1, 0>>>>]

\* every numHMetrics and numGlyphs up to MaxMetrics, the hmtx table holding
\* numHMetrics records
HmtxFonts ==
    { [SmallFont EXCEPT !.num_h_metrics = n, !.num_glyphs = g,
                        !.h_metrics = [k \in 1..n |-> IF k = 1 THEN 500 ELSE 250]] :
        n \in 0..MaxMetrics, g \in 0..MaxMetrics }

Os2Lengths == {70, 72, 86, 87, 88, 89, 90, 96}

Os2Fonts ==
    { [SmallFont EXCEPT !.os2_version = v, !.os2_length = l] :
        v \in 0..MaxOs2Version, l \in Os2Lengths }

TagLists ==
    { <<"head", "hhea", "maxp", "hmtx", "cmap", "post">>,
      <<"head", "hhea", "maxp", "hmtx", "cmap", "OS/2">>,
      <<"head", "hhea", "maxp", "hmtx", "cmap">>,
      <<"hhea", "maxp", "hmtx", "cmap", "OS/2", "post">>,
      <<"head", "hhea", "maxp", "hmtx", "OS/2", "post">> }

TableFonts == { [SmallFont EXCEPT !.tags = t] : t \in TagLists }

\* format 4 subtables: segments with and without a range offset, a delta
\* that wraps, a glyph array with a zero, a declared length that ends
\* before the last glyph array entry, segments that overlap
Format4Fonts ==
    { [SmallFont EXCEPT !.segments = c[1], !.glyph_array = c[2], !.cmap_cut = c[3]] :
        c \in { << <<<<65, 67, 0, 0>>>>, <<>>, 0 >>,
                << <<<<65, 66, -66, 0>>, <<65535, 65535, 1, 0>>>>, <<>>, 0 >>,
                << <<<<65, 67, 1, 2>>>>, <<1, 0, 2>>, 0 >>,
                << <<<<65, 67, 1, 2>>>>, <<1, 0, 2>>, 1 >>,
                << <<<<65, 67, 1, 2>>>>, <<1, 0, 2>>, 2 >>,
                << <<<<32, 32, -31, 0>>, <<65, 66, 0, 4>>>>, <<2, 0>>, 0 >>,
                << <<<<65, 66, 0, 0>>, <<66, 67, 10, 0>>>>, <<>>, 0 >> } }

\* format 12 subtables, one with glyph ids that need more than 16 bits
Format12Fonts ==
    { [SmallFont EXCEPT !.cmap_format = 12, !.encoding_id = e, !.segments = g] :
        e \in {1, 10},
        g \in { <<<<32, 32, 1>>, <<97, 97, 2>>>>, <<<<65, 66, 65535>>>> } }

\* fonts the parser refuses: no Unicode subtable, a format it does not
\* read, a file that ends early
RefusedFonts ==
    { [SmallFont EXCEPT !.platform_id = 1],
      [SmallFont EXCEPT !.encoding_id = 0],
      [SmallFont EXCEPT !.cmap_format = 6],
      [SmallFont EXCEPT !.file_cut = 200],
      [SmallFont EXCEPT !.file_cut = 400] }

FontDescriptions ==
    {DigestFont} \cup HmtxFonts \cup Os2Fonts \cup TableFonts \cup Format4Fonts
    \cup Format12Fonts \cup RefusedFonts

\* what FONT_PATH can hold when the script is run
BuildFontFiles ==
    { [exists |-> FALSE, description |-> DigestFont],
      [exists |-> TRUE, description |-> DigestFont] }
    \cup { [exists |-> TRUE, description |-> d] : d \in TableFonts \cup RefusedFonts }

\* the texts handed to the encoder: mapped and unmapped characters, with
\* and without a space
EncTexts == { "a", "b", " a", "AB" }

EncSizes == { 10000 }

(***************************************************************************)
(* Actions of the layout engine                                            *)
(***************************************************************************)
LayoutState ==
    [pages |-> pages, current_page |-> current_page, cursor_y |-> cursor_y,
     enc |-> encoder]

SetLayoutState(st) ==
    /\ pages' = st.pages
    /\ current_page' = st.current_page
    /\ cursor_y' = st.cursor_y
    /\ encoder' = st.enc

Record(op, entries) ==
    /\ nops' = nops + 1
    /\ first_op' = IF nops = 0 THEN op ELSE first_op
    /\ last_op' = op
    /\ log' = entries

\* how many layout operations the running program may call: MaxOps on a bare
\* engine, the three of the title block and MaxContentOps more in build_pdf
OpLimit == IF pc = "layout" THEN MaxOps
           ELSE IF pc = "content" THEN 3 + MaxContentOps ELSE 0

AddHeading ==
    \E text \in HeadingTexts, level \in 1..3 :
        /\ nops < OpLimit
        /\ \E r \in { AddParagraphOp(LayoutState,
                                     HeadingParagraph(LayoutState, text, level)) } :
            /\ SetLayoutState(r[1])
            /\ Record([name |-> "add_heading", text |-> text, level |-> level],
                      <<r[2]>>)
        /\ UNCHANGED <<docVars, build, pc, runVars>>

AddLabel ==
    \E text \in LabelTexts :
        /\ nops < OpLimit
        /\ \E r \in { AddParagraphOp(LayoutState, LabelParagraph(text)) } :
            /\ SetLayoutState(r[1])
            /\ Record([name |-> "add_label", text |-> text], <<r[2]>>)
        /\ UNCHANGED <<docVars, build, pc, runVars>>

AddParagraph ==
    \E text \in Texts, s \in ParagraphStyles :
        /\ nops < OpLimit
        /\ \E p \in { Paragraph(text, "body", s[1], s[2], s[3], s[4], s[5], s[6]) } :
           \E r \in { AddParagraphOp(LayoutState, p) } :
            /\ SetLayoutState(r[1])
            /\ Record([name |-> "add_paragraph", paragraph |-> p], <<r[2]>>)
        /\ UNCHANGED <<docVars, build, pc, runVars>>

AddBulletList ==
    \E items \in SeqsUpTo(ItemTexts, MaxItems) :
        /\ nops < OpLimit
        /\ \E r \in { AddBulletListOp(LayoutState, items) } :
            /\ SetLayoutState(r[1])
            /\ Record([name |-> "add_bullet_list", items |-> items], r[2])
        /\ UNCHANGED <<docVars, build, pc, runVars>>

AddSpacing ==
    \E amount \in SpacingAmounts :
        /\ nops < OpLimit
        /\ SetLayoutState(AddSpacingOp(LayoutState, amount))
        /\ Record([name |-> "add_spacing", amount |-> amount], <<>>)
        /\ UNCHANGED <<docVars, build, pc, runVars>>

LayoutNext == AddHeading \/ AddLabel \/ AddParagraph \/ AddBulletList \/ AddSpacing

\* the layout engine and the writer are exercised with the digest font parsed
FontLoaded ==
    /\ font_file = [exists |-> TRUE, description |-> DigestFont]
    /\ font = DigestFontParsed
    /\ output_dir = FALSE

LayoutSpecInit == Init /\ FontLoaded /\ pc = "layout"

SpecLayout == LayoutSpecInit /\ [][LayoutNext]_vars

(***************************************************************************)
(* Actions of the writer.  Objects are added before the file is written;   *)
(* write may be repeated (it overwrites the file).                         *)
(***************************************************************************)
PdfState == [objects |-> objects, returned |-> returned]

SetPdfState(pdf) ==
    /\ objects' = pdf.objects
    /\ returned' = pdf.returned

DocInit == Init /\ FontLoaded /\ pc = "doc"

\* the other variables of the engine, when last_op records a call
layRest == <<encoder, pages, current_page, cursor_y, nops, first_op, log>>

AddObject ==
    \E dictionary \in Dicts :
        /\ pc = "doc"
        /\ Len(objects) < MaxObjects
        /\ file = NoFile
        /\ SetPdfState(AddObjectOp(PdfState, dictionary))
        /\ last_op' = [name |-> "add_object", dictionary |-> dictionary]
        /\ UNCHANGED <<trailer_extra, file, write_root, layRest, build, pc, runVars>>

AddStream ==
    \E dictionary \in StreamDicts, data \in Payloads, compress \in BOOLEAN :
        /\ pc = "doc"
        /\ Len(objects) < MaxObjects
        /\ file = NoFile
        /\ SetPdfState(AddStreamOp(PdfState, dictionary, data, compress))
        /\ last_op' = [name |-> "add_stream", dictionary |-> dictionary,
                       data |-> data, compress |-> compress]
        /\ UNCHANGED <<trailer_extra, file, write_root, layRest, build, pc, runVars>>

SetTrailerEntry ==
    \E e \in TrailerEntries :
        /\ pc = "doc"
        /\ file = NoFile
        /\ trailer_extra' = DictSet(trailer_extra, e[1], e[2])
        /\ UNCHANGED <<objects, file, returned, write_root, layVars, build, pc, runVars>>

Write ==
    \E root_object \in 1..(Len(objects) + 1) :
        /\ pc = "doc"
        /\ file' = WriteBytes(objects, trailer_extra, root_object)
        /\ write_root' = root_object
        /\ UNCHANGED <<objects, trailer_extra, returned, layVars, build, pc, runVars>>

DocNext == AddObject \/ AddStream \/ SetTrailerEntry \/ Write

SpecDoc == DocInit /\ [][DocNext]_vars

(***************************************************************************)
(* Actions of build_pdf.  The content loop calls the layout operations;    *)
(* the model lets it call any MaxContentOps of them.                       *)
(***************************************************************************)
BuildSpecInit ==
    /\ Init
    /\ font_file \in BuildFontFiles
    /\ font = NoFont
    /\ output_dir = FALSE
    /\ pc = "main"

Main_without_exists_test ==
    /\ pc = "main"
    /\ output_dir' = TRUE
    /\ pc' = "build"
    /\ UNCHANGED <<docVars, layVars, build, font_file, font, error>>

\* lines 900-904 up to the call of build_pdf
Main ==
    /\ pc = "main"
    /\ IF ~font_file.exists
       THEN /\ error' = "SystemExit"
            /\ pc' = "exit"
            /\ UNCHANGED output_dir
       ELSE /\ output_dir' = TRUE
            /\ pc' = "build"
            /\ UNCHANGED error
    /\ UNCHANGED <<docVars, layVars, build, font_file, font>>

\* TrueTypeFont(path): the font is there when every table has been parsed,
\* an exception of the parser leaves the caller
ConstructFont(from, to) ==
    /\ pc = from
    /\ \E r \in { TrueTypeFont(FontFile(font_file.description)) } :
        IF Failed(r)
        THEN /\ error' = r.error
             /\ pc' = "failed"
             /\ UNCHANGED font
        ELSE /\ font' = r.value
             /\ pc' = to
             /\ UNCHANGED error
    /\ UNCHANGED <<docVars, layVars, build, font_file, output_dir>>

\* line 800
LoadFont == ConstructFont("build", "start")

\* lines 801-826
LayoutTitle ==
    /\ pc = "start"
    /\ \E r \in { LayoutTitleOp(LayoutState) } :
        /\ SetLayoutState(r[1])
        /\ nops' = nops + 3
        /\ first_op' = [name |-> "add_heading", text |-> TitleText, level |-> 1]
        /\ last_op' = [name |-> "add_paragraph",
                       paragraph |-> r[2].paragraph]
        /\ log' = <<r[2]>>
    /\ pc' = "content"
    /\ UNCHANGED <<docVars, build, runVars>>

AddPageNumbers_without_registration ==
    /\ pc = "content"
    /\ SetLayoutState([PageNumbersLoop(LayoutState, 1) EXCEPT !.enc = encoder])
    /\ pc' = "font"
    /\ UNCHANGED <<docVars, nops, first_op, last_op, log, build, runVars>>

\* lines 862-873, once the content loop has ended
AddPageNumbers ==
    /\ pc = "content"
    /\ SetLayoutState(PageNumbersLoop(LayoutState, 1))
    /\ pc' = "font"
    /\ UNCHANGED <<docVars, nops, first_op, last_op, log, build, runVars>>

\* lines 875-876
BuildFontObjects ==
    /\ pc = "font"
    /\ \E r \in { BuildPdfObjects(encoder, PdfState) } :
        /\ SetPdfState(r.pdf)
        /\ encoder' = r.enc
        /\ build' = [build EXCEPT !.font_obj = r.font_obj]
    /\ pc' = "pages"
    /\ UNCHANGED <<trailer_extra, file, write_root, pages, current_page, cursor_y,
                   nops, first_op, last_op, log, runVars>>

\* one iteration of the loop of lines 879-891
AddPage ==
    /\ pc = "pages"
    /\ build.page < Len(pages)
    /\ \E pdf1 \in { AddStreamOp(PdfState, <<>>,
                                 PageContent(pages[build.page + 1]), TRUE) } :
       \E pdf2 \in { AddObjectOp(pdf1, PageDict(LastId(pdf1), build.font_obj)) } :
        /\ SetPdfState(pdf2)
        /\ build' = [build EXCEPT
                        !.page = @ + 1,
                        !.pages_objects = Append(@, LastId(pdf2))]
    /\ UNCHANGED <<trailer_extra, file, write_root, layVars, pc, runVars>>

\* lines 893-894, after the last page
AddPageTree ==
    /\ pc = "pages"
    /\ build.page = Len(pages)
    /\ \E pdf1 \in { AddObjectOp(PdfState, PagesDict(build.pages_objects)) } :
        /\ SetPdfState(pdf1)
        /\ build' = [build EXCEPT !.pages_obj = LastId(pdf1)]
    /\ pc' = "catalog"
    /\ UNCHANGED <<trailer_extra, file, write_root, layVars, runVars>>

\* line 895
AddCatalog ==
    /\ pc = "catalog"
    /\ \E pdf1 \in { AddObjectOp(PdfState, CatalogDict(build.pages_obj)) } :
        /\ SetPdfState(pdf1)
        /\ build' = [build EXCEPT !.catalog_obj = LastId(pdf1)]
    /\ pc' = "write"
    /\ UNCHANGED <<trailer_extra, file, write_root, layVars, runVars>>

\* line 896
WriteFile ==
    /\ pc = "write"
    /\ file' = WriteBytes(objects, trailer_extra, build.catalog_obj)
    /\ write_root' = build.catalog_obj
    /\ pc' = "done"
    /\ UNCHANGED <<objects, trailer_extra, returned, layVars, build, runVars>>

BuildNext ==
    \/ Main
    \/ LoadFont
    \/ LayoutTitle
    \/ AddHeading \/ AddLabel \/ AddParagraph \/ AddBulletList \/ AddSpacing
    \/ AddPageNumbers
    \/ BuildFontObjects
    \/ AddPage
    \/ AddPageTree
    \/ AddCatalog
    \/ WriteFile

SpecBuild == BuildSpecInit /\ [][BuildNext]_vars

(***************************************************************************)
(* Actions of the font parser and the encoder: a font file is parsed, then *)
(* the encoder over the parsed font is called at most MaxEncOps times, and *)
(* the font objects are built.  An exception ends the run.                 *)
(***************************************************************************)
FontSpecInit ==
    /\ Init
    /\ font_file \in { [exists |-> TRUE, description |-> d] : d \in FontDescriptions }
    /\ font = NoFont
    /\ output_dir = FALSE
    /\ pc = "construct"

\* FontEncoder(TrueTypeFont(path))
ParseFont == ConstructFont("construct", "encoder")

\* the index in the text of the first character whose glyph has no entry in
\* advance_widths, 0 when there is none
FirstUnmeasured(text) ==
    Let1({ i \in 1..Len(text) : GlyphForChar(CharAt(text, i)) >= Len(advance_widths) },
         LAMBDA bad : IF bad = {} THEN 0
                      ELSE CHOOSE i \in bad : \A j \in bad : i <= j)

EnsureTextCall ==
    \E text \in EncTexts :
        /\ pc = "encoder"
        /\ nops < MaxEncOps
        /\ encoder' = EnsureText(encoder, text)
        /\ nops' = nops + 1
        /\ last_op' = [name |-> "ensure_text", text |-> text]
        /\ UNCHANGED <<docVars, pages, current_page, cursor_y, first_op, log,
                       build, runVars, pc>>

\* the loop of measure_text ends with an IndexError at the first glyph id
\* that advance_widths does not hold
MeasureTextCall ==
    \E text \in EncTexts, font_size \in EncSizes :
        /\ pc = "encoder"
        /\ nops < MaxEncOps
        /\ IF FirstUnmeasured(text) = 0
           THEN /\ encoder' = MeasureEnc(encoder, text)
                /\ last_op' = [name |-> "measure_text", text |-> text,
                               result |-> MeasureText(encoder, text, font_size)]
                /\ UNCHANGED <<error, pc>>
           ELSE /\ encoder' = EnsureText(encoder, SubSeq(text, 1, FirstUnmeasured(text)))
                /\ last_op' = [name |-> "measure_text", text |-> text]
                /\ error' = "IndexError"
                /\ pc' = "failed"
        /\ nops' = nops + 1
        /\ UNCHANGED <<docVars, pages, current_page, cursor_y, first_op, log,
                       build, font_file, font, output_dir>>

EncodeTextCall ==
    \E text \in EncTexts :
        /\ pc = "encoder"
        /\ nops < MaxEncOps
        /\ encoder' = EncodeEnc(encoder, text)
        /\ nops' = nops + 1
        /\ last_op' = [name |-> "encode_text", text |-> text,
                       result |-> EncodeText(encoder, text)]
        /\ UNCHANGED <<docVars, pages, current_page, cursor_y, first_op, log,
                       build, runVars, pc>>

BuildObjectsCall ==
    /\ pc = "encoder"
    /\ \E enc1 \in { IF encoder.used_chars = "" THEN EnsureText(encoder, " ")
                     ELSE encoder } :
        IF \A glyph \in enc1.used_glyphs : glyph < Len(advance_widths)
        THEN /\ \E r \in { BuildPdfObjects(encoder, PdfState) } :
                  /\ SetPdfState(r.pdf)
                  /\ encoder' = r.enc
                  /\ build' = [build EXCEPT !.font_obj = r.font_obj]
             /\ pc' = "built"
             /\ UNCHANGED error
        ELSE /\ encoder' = enc1
             /\ error' = "IndexError"
             /\ pc' = "failed"
             /\ UNCHANGED <<objects, returned, build>>
    /\ UNCHANGED <<trailer_extra, file, write_root, pages, current_page, cursor_y,
                   nops, first_op, last_op, log, font_file, font, output_dir>>

FontNext ==
    \/ ParseFont
    \/ EnsureTextCall
    \/ MeasureTextCall
    \/ EncodeTextCall
    \/ BuildObjectsCall

SpecFont == FontSpecInit /\ [][FontNext]_vars

(***************************************************************************)
(* Reading a written file back, as a PDF reader does: from the end of the  *)
(* file to startxref, from there to the xref records, from a record to the *)
(* object.                                                                 *)
(***************************************************************************)
IsDigits(s) == \A i \in 1..Len(s) : CharAt(s, i) \in Digits

RECURSIVE ParseInt(_)
ParseInt(s) ==
    IF Len(s) = 0 THEN 0
    ELSE ParseInt(SubSeq(s, 1, Len(s) - 1)) * 10 + DigitVal(CharAt(s, Len(s)))

RECURSIVE DigitsStart(_, _)
\* first position of the run of digits that ends at position i
DigitsStart(s, i) ==
    IF i >= 1 /\ CharAt(s, i) \in Digits THEN DigitsStart(s, i - 1) ELSE i + 1

RECURSIVE DigitsEnd(_, _)
\* last position of the run of digits that starts at position i
DigitsEnd(s, i) ==
    IF i <= Len(s) /\ CharAt(s, i) \in Digits THEN DigitsEnd(s, i + 1) ELSE i - 1

\* the number between "startxref\n" and "\n%%EOF" at the end of f, or -1
ReadStartXref(f) ==
    LET e == Len(f) - 6
        b == DigitsStart(f, e)
    IN  IF /\ SubSeq(f, e + 1, Len(f)) = "\n%%EOF"
           /\ b <= e
           /\ b > 10
           /\ SubSeq(f, b - 10, b - 1) = "startxref\n"
        THEN ParseInt(SubSeq(f, b, e))
        ELSE -1

\* the entry count of the subsection header "0 <count>\n" after "xref\n"
ReadXrefCount(f) ==
    LET b == ReadStartXref(f) + 8
        e == DigitsEnd(f, b)
    IN  IF e >= b /\ CharAt(f, e + 1) = "\n" THEN ParseInt(SubSeq(f, b, e)) ELSE -1

\* 0-based offset of the first 20-byte record of the xref section
XrefRecordsOffset(f) == DigitsEnd(f, ReadStartXref(f) + 8) + 1

\* the 20 bytes of the record of object number k
XrefRecord(f, k) ==
    SubSeq(f, XrefRecordsOffset(f) + 20 * k + 1, XrefRecordsOffset(f) + 20 * k + 20)

InUseRecord(rec) == IsDigits(SubSeq(rec, 1, 10)) /\ SubSeq(rec, 11, 20) = " 00000 n \n"

RecordOffset(rec) == ParseInt(SubSeq(rec, 1, 10))

\* f has the text t at 0-based offset off
HasAt(f, off, t) ==
    /\ off >= 0
    /\ off + Len(t) <= Len(f)
    /\ SubSeq(f, off + 1, off + Len(t)) = t

(***************************************************************************)
(* C1: after write, the offset in the in-use xref record of every object   *)
(* id i in 1..N is the byte position of the file at which the line         *)
(* "<i> 0 obj" begins.                                                     *)
(***************************************************************************)
OffsetsLandOnMarkers ==
    file # NoFile =>
        \A i \in 1..Len(objects) :
            LET rec == XrefRecord(file, i)
            IN  /\ InUseRecord(rec)
                /\ HasAt(file, RecordOffset(rec) - 1, "\n" \o ToString(i) \o " 0 obj\n")

WitnessOffsets ==
    /\ file # NoFile
    /\ Len(objects) >= 2
    /\ \E i \in 1..Len(objects) : HasAt(objects[i], 0, "<< /Filter")
    /\ \E i \in 1..Len(objects) : HasAt(objects[i], 0, "<< /Type")

(***************************************************************************)
(* Reading the objects of the assembled document                           *)
(***************************************************************************)
\* the body is a page dictionary
IsPageObject(body) == HasAt(body, 0, "<< /Type /Page /Parent ")

\* the object number of the Parent reference of a page dictionary
ParentOf(body) ==
    LET b == Len("<< /Type /Page /Parent ") + 1
    IN  IF HasAt(body, DigitsEnd(body, b), " 0 R")
        THEN ParseInt(SubSeq(body, b, DigitsEnd(body, b)))
        ELSE -1

\* the body is a page-tree dictionary
IsPagesObject(body) == HasAt(body, 0, "<< /Type /Pages /Kids [")

\* the Kids array of the page-tree dictionary lists object k
ListsKid(body, k) ==
    \E off \in 0..Len(body) :
        \/ HasAt(body, off, "[" \o ToString(k) \o " 0 R")
        \/ HasAt(body, off, " " \o ToString(k) \o " 0 R")

(***************************************************************************)
(* C2: in the document build_pdf has assembled, the Parent reference of    *)
(* every page object is the id of the /Pages object whose Kids array lists *)
(* that page.                                                              *)
(***************************************************************************)
PagesWiredToTree ==
    pc = "done" =>
        \A k \in 1..Len(objects) :
            IsPageObject(objects[k]) =>
                \E t \in 1..Len(objects) :
                    /\ IsPagesObject(objects[t])
                    /\ ListsKid(objects[t], k)
                    /\ ParentOf(objects[k]) = t

(***************************************************************************)
(* C3: the k-th add_object/add_stream call returns k, and no call changes  *)
(* the body or the position of an object inserted earlier.                 *)
(***************************************************************************)
IdsSequentialAppendOnly ==
    [][/\ Len(returned') = Len(objects')
       /\ \A k \in 1..Len(returned') : returned'[k] = k
       /\ Len(objects') >= Len(objects)
       /\ \A i \in 1..Len(objects) : objects'[i] = objects[i]]_vars

WitnessIds ==
    /\ Len(returned) >= 2
    /\ \E i, j \in 1..Len(objects) :
          /\ i < j
          /\ HasAt(objects[i], 0, "<< /Length")
          /\ HasAt(objects[j], 0, "<< /Type")
          /\ ~HasAt(objects[j], Len(objects[j]) - 9, "endstream")

(***************************************************************************)
(* C4: the written file has an xref section with one free record and N     *)
(* in-use records at increasing offsets, a trailer with Size N+1 and the   *)
(* Root passed to write, and a startxref value that is the offset of the   *)
(* xref section.                                                           *)
(***************************************************************************)
XrefAndTrailer ==
    file # NoFile =>
        LET N  == Len(objects)
            sx == ReadStartXref(file)
            tr == XrefRecordsOffset(file) + 20 * (N + 1)
        IN  /\ sx >= 0
            /\ HasAt(file, sx - 1, "\nxref\n0 ")
            /\ ReadXrefCount(file) = N + 1
            /\ XrefRecord(file, 0) = "0000000000 65535 f \n"
            /\ \A k \in 1..N : InUseRecord(XrefRecord(file, k))
            /\ \A k \in 2..N : RecordOffset(XrefRecord(file, k - 1))
                                 < RecordOffset(XrefRecord(file, k))
            /\ HasAt(file, tr, "trailer\n<< /Size " \o ToString(N + 1)
                                \o " /Root " \o ToString(write_root) \o " 0 R ")

WitnessXref ==
    /\ file # NoFile
    /\ Len(objects) >= 2
    /\ write_root = Len(objects)
    /\ Len(trailer_extra) > 0

(***************************************************************************)
(* Reading the lines of an add_paragraph call (an entry of log)            *)
(***************************************************************************)
HasPrefix(text) == HasAt(text, 0, BulletPrefix)

\* the words on a line, the bullet prefix aside
LineWords(text) ==
    IF HasPrefix(text) THEN Split(SubSeq(text, Len(BulletPrefix) + 1, Len(text)))
    ELSE Split(text)

RECURSIVE AllLineWords(_)
AllLineWords(lines) ==
    IF Len(lines) = 0 THEN <<>>
    ELSE LineWords(lines[1].text) \o AllLineWords(Tail(lines))

\* index, among the words of the paragraph, of the first word of line k
RECURSIVE FirstWordIndex(_, _)
FirstWordIndex(lines, k) ==
    IF k = 1 THEN 1
    ELSE FirstWordIndex(lines, k - 1) + Len(LineWords(lines[k - 1].text))

TextWidth == PAGE_WIDTH - MARGIN_LEFT - MARGIN_RIGHT

WordWidth(word, size) == MeasureText(encoder, word, size)

TopOfPage == PAGE_HEIGHT - MARGIN_TOP

TextCommands(page) == SelectSeq(page, LAMBDA c : c.op = "Tj")

(***************************************************************************)
(* C5: when a line without prefix starts with a word and that word, one    *)
(* space and the next word are exactly as wide as the line's available     *)
(* width, both words are on that line; a following third word of width > 0 *)
(* is not on it, it starts the next line.                                  *)
(***************************************************************************)
ExactFitSharesLine ==
    \A n \in 1..Len(log) :
        LET e     == log[n]
            size  == e.paragraph.size
            words == Split(ReplaceNbsp(e.paragraph.text))
        IN  \A k \in 1..Len(e.lines) :
                LET i     == FirstWordIndex(e.lines, k)
                    avail == TextWidth - e.lines[k].indent
                    here  == LineWords(e.lines[k].text)
                IN  ( /\ ~HasPrefix(e.lines[k].text)
                      /\ i + 1 <= Len(words)
                      /\ WordWidth(words[i], size) + WordWidth(" ", size)
                           + WordWidth(words[i + 1], size) = avail )
                    => /\ Len(here) >= 2
                       /\ here[1] = words[i]
                       /\ here[2] = words[i + 1]
                       /\ ( i + 2 <= Len(words) /\ WordWidth(words[i + 2], size) > 0 )
                          => /\ Len(here) = 2
                             /\ k < Len(e.lines)
                             /\ LineWords(e.lines[k + 1].text)[1] = words[i + 2]

WitnessExactFit ==
    \E n \in 1..Len(log) :
        LET e     == log[n]
            words == Split(ReplaceNbsp(e.paragraph.text))
        IN  /\ ~e.paragraph.bullet
            /\ Len(words) >= 3
            /\ WordWidth(words[1], e.paragraph.size)
                 + WordWidth(" ", e.paragraph.size)
                 + WordWidth(words[2], e.paragraph.size)
               = TextWidth - e.paragraph.indent
            /\ WordWidth(words[3], e.paragraph.size) > 0
            /\ Len(e.placed) >= 2

(***************************************************************************)
(* C6: the words of the paragraph text appear whole, once each and in      *)
(* input order on the produced lines, every line is drawn, and a word      *)
(* wider than the available width of its line is the only word on it.      *)
(***************************************************************************)
WordsKeptWhole ==
    \A n \in 1..Len(log) :
        LET e == log[n]
        IN  /\ AllLineWords(e.lines) = Split(ReplaceNbsp(e.paragraph.text))
            /\ Len(e.placed) = Len(e.lines)
            /\ \A k \in 1..Len(e.lines) :
                   LET here == LineWords(e.lines[k].text)
                   IN  \A j \in 1..Len(here) :
                           WordWidth(here[j], e.paragraph.size)
                               > TextWidth - e.lines[k].indent
                           => Len(here) = 1

WitnessOverflowWord ==
    \E n \in 1..Len(log) :
        /\ Len(log[n].words) >= 3
        /\ \E k \in 1..Len(log[n].lines) :
               /\ k > 1
               /\ k < Len(log[n].lines)
               /\ WordWidth(log[n].lines[k].text, log[n].paragraph.size)
                    > TextWidth - log[n].lines[k].indent

(***************************************************************************)
(* C7: a line that add_paragraph finds the cursor below                    *)
(* MARGIN_BOTTOM + size for is drawn first on a new page at the top        *)
(* position, any other line is drawn at the cursor; and every text line    *)
(* on any page whose font size fits the page has y >= MARGIN_BOTTOM + size.*)
(***************************************************************************)
LinesAboveBottomMargin ==
    /\ \A n \in 1..Len(log) : \A k \in 1..Len(log[n].placed) :
           LET pl   == log[n].placed[k]
               size == log[n].paragraph.size
           IN  IF pl.cursor_before < MARGIN_BOTTOM + size
               THEN /\ pl.y = TopOfPage
                    /\ TextCommands(pages[pl.page])[1].y = pl.y
                    /\ k > 1 => pl.page = log[n].placed[k - 1].page + 1
               ELSE pl.y = pl.cursor_before
    /\ \A i \in 1..Len(pages) : \A j \in 1..Len(pages[i]) :
           LET c == pages[i][j]
           IN  ( c.op = "Tj" /\ MARGIN_BOTTOM + c.size <= TopOfPage )
               => c.y >= MARGIN_BOTTOM + c.size

WitnessPageBreak ==
    \E n \in 1..Len(log) : \E k \in 1..Len(log[n].placed) :
        /\ log[n].placed[k].cursor_before >= MARGIN_BOTTOM
        /\ log[n].placed[k].cursor_before < MARGIN_BOTTOM + log[n].paragraph.size
        /\ log[n].placed[k].page = 2
        /\ Len(TextCommands(pages[1])) > 0

(***************************************************************************)
(* C8 as stated: when the first operation is add_heading(text, 1) with     *)
(* non-empty text, page 1 exists and its first text placement has          *)
(* y = PAGE_HEIGHT - MARGIN_TOP; the first text placement of every later   *)
(* page has that y too.                                                    *)
(***************************************************************************)
FirstPlacementAtTop_nonempty ==
    /\ ( first_op.name = "add_heading" /\ first_op.level = 1
         /\ first_op.text # "" )
       => /\ Len(pages) >= 1
          /\ Len(TextCommands(pages[1])) > 0
             => TextCommands(pages[1])[1].y = TopOfPage
    /\ \A i \in 2..Len(pages) :
           Len(TextCommands(pages[i])) > 0
           => TextCommands(pages[i])[1].y = TopOfPage

(***************************************************************************)
(* C8 amended: the same, for a heading text that contains at least one     *)
(* word (a text of white space only draws nothing, and the next paragraph  *)
(* is then placed below the top position).                                 *)
(***************************************************************************)
FirstPlacementAtTop ==
    /\ ( first_op.name = "add_heading" /\ first_op.level = 1
         /\ Len(Split(ReplaceNbsp(first_op.text))) > 0 )
       => /\ Len(pages) >= 1
          /\ Len(TextCommands(pages[1])) > 0
          /\ TextCommands(pages[1])[1].y = TopOfPage
    /\ \A i \in 2..Len(pages) :
           Len(TextCommands(pages[i])) > 0
           => TextCommands(pages[i])[1].y = TopOfPage

WitnessFirstPlacement ==
    /\ first_op.name = "add_heading"
    /\ first_op.level = 1
    /\ Len(Split(ReplaceNbsp(first_op.text))) > 0
    /\ Len(pages) >= 2
    /\ Len(TextCommands(pages[1])) > 0
    /\ Len(TextCommands(pages[2])) > 0

(***************************************************************************)
(* C9: add_bullet_list lays out one bullet paragraph per item; an item     *)
(* with non-empty text has exactly one line that starts with the bullet    *)
(* prefix, and every line without the prefix is drawn at                   *)
(* MARGIN_LEFT + paragraph indent + bullet_indent.                         *)
(***************************************************************************)
BulletListLines ==
    last_op.name = "add_bullet_list" =>
        /\ Len(log) = Len(last_op.items)
        /\ \A n \in 1..Len(log) :
               LET e == log[n]
               IN  /\ e.paragraph.text = last_op.items[n]
                   /\ e.paragraph.bullet
                   /\ e.paragraph.text # ""
                      => Cardinality({k \in 1..Len(e.lines) :
                                         HasPrefix(e.lines[k].text)}) = 1
                   /\ Len(e.placed) = Len(e.lines)
                   /\ \A k \in 1..Len(e.lines) :
                          \E j \in 1..Len(pages[e.placed[k].page]) :
                              LET c == pages[e.placed[k].page][j]
                              IN  /\ c.op = "Tj"
                                  /\ c.y = e.placed[k].y
                                  /\ c.text = EncodeText(encoder, e.lines[k].text)
                                  /\ c.x = IF HasPrefix(e.lines[k].text)
                                           THEN MARGIN_LEFT + e.paragraph.indent
                                           ELSE MARGIN_LEFT + e.paragraph.indent
                                                + bullet_indent

WitnessBulletList ==
    /\ last_op.name = "add_bullet_list"
    /\ Len(last_op.items) >= 2
    /\ \A n \in 1..Len(log) : Len(log[n].lines) >= 1
    /\ \E n \in 1..Len(log) :
           /\ Len(log[n].lines) >= 2
           /\ ~HasPrefix(log[n].lines[2].text)

(***************************************************************************)
(* C10 as stated: add_paragraph with empty text leaves the page list,      *)
(* every page's command list and the cursor as they were.                  *)
(***************************************************************************)
EmptyParagraphChangesNothing ==
    [][( /\ nops' = nops + 1
         /\ last_op'.name = "add_paragraph"
         /\ ReplaceNbsp(last_op'.paragraph.text) = "" )
       => /\ pages' = pages
          /\ cursor_y' = cursor_y]_vars

(***************************************************************************)
(* C10 amended: add_paragraph with empty text draws nothing and registers  *)
(* no character; it starts page 1 when there is no page yet, leaves the    *)
(* command list of every existing page as it was, and lowers the cursor    *)
(* (the top position on a page it started) by space_before + space_after.  *)
(***************************************************************************)
EmptyParagraphOnlySpacing ==
    [][( /\ nops' = nops + 1
         /\ last_op'.name = "add_paragraph"
         /\ ReplaceNbsp(last_op'.paragraph.text) = "" )
       => /\ pages' = IF current_page = 0 THEN Append(pages, <<>>) ELSE pages
          /\ current_page' = Len(pages')
          /\ cursor_y' = (IF current_page = 0 THEN TopOfPage ELSE cursor_y)
                         - (last_op'.paragraph.space_before
                            + last_op'.paragraph.space_after)
          /\ encoder' = encoder]_vars

WitnessEmptyParagraph ==
    /\ last_op.name = "add_paragraph"
    /\ ReplaceNbsp(last_op.paragraph.text) = ""
    /\ nops >= 2
    /\ Len(pages) = 1
    /\ Len(TextCommands(pages[1])) > 0

(***************************************************************************)
(* C11: ensure_text is idempotent.  From every usage state the encoder     *)
(* reaches and for every text, registering the text a second time leaves   *)
(* char_to_gid, used_chars with its order, and used_glyphs as the first    *)
(* call left them; and the state an ensure_text call has just produced is  *)
(* not changed by the same call.                                           *)
(***************************************************************************)
EnsureTextIdempotent ==
    font # NoFont =>
        /\ \A text \in EncTexts :
               Let1(EnsureText(encoder, text),
                    LAMBDA once : EnsureText(once, text) = once)
        /\ last_op.name = "ensure_text" =>
               EnsureText(encoder, last_op.text) = encoder

\* the second of two calls, on a text of which one character was registered
\* before and one was not
WitnessEnsureText ==
    /\ last_op.name = "ensure_text"
    /\ last_op.text = " a"
    /\ nops = 2
    /\ encoder.used_chars = "a "
    /\ encoder.char_to_gid["a"] # encoder.char_to_gid[" "]

(***************************************************************************)
(* Reading the font objects back from the bodies build_pdf_objects added:  *)
(* the descendant font is the last object but one.                         *)
(***************************************************************************)
\* first position of sub in s, 0 when s does not hold it
Find(s, sub) ==
    Let1({ i \in 1..(Len(s) - Len(sub) + 1) : SubSeq(s, i, i + Len(sub) - 1) = sub },
         LAMBDA at : IF at = {} THEN 0 ELSE CHOOSE i \in at : \A j \in at : i <= j)

DescendantBody == objects[Len(objects) - 1]

\* the number after /DW
ReadDW ==
    Let2(DescendantBody, Find(DescendantBody, "/DW ") + 4,
         LAMBDA body, b : ParseInt(SubSeq(body, b, DigitsEnd(body, b))))

\* the width of a glyph in thousandths of the em, rounded as round() does
PerMille(glyph) == RoundDiv(font.advance_widths[glyph + 1] * 1000, font.units_per_em)

SpaceGlyph == IF 32 \in DOMAIN font.cmap THEN font.cmap[32] ELSE 0

(***************************************************************************)
(* C12: the default width DW that build_pdf_objects writes is the width of *)
(* the space glyph in thousandths of the em when the space character is    *)
(* registered, and 600 when it is not, whatever else is registered.        *)
(***************************************************************************)
DefaultWidthSpaceOr600 ==
    pc = "built" =>
        ReadDW = IF " " \in encoder.char_set THEN PerMille(SpaceGlyph) ELSE 600

\* the numbers between the brackets of /W, in the order written
ReadW ==
    Let2(DescendantBody, Find(DescendantBody, "/W [") + 4,
         LAMBDA body, b :
             Let1(Split(SubSeq(body, b, b + Find(SubSeq(body, b, Len(body)), "]") - 2)),
                  LAMBDA tokens : [k \in 1..Len(tokens) |-> ParseInt(tokens[k])]))

(***************************************************************************)
(* C13: the width table W that build_pdf_objects writes is a list of       *)
(* glyph id and width pairs in strictly ascending glyph id order; the      *)
(* glyphs listed are glyph 0 when it is used and the used glyphs whose     *)
(* width in thousandths of the em differs from DW, so no other used glyph  *)
(* of the default width has an entry; each entry carries the glyph's       *)
(* width.                                                                  *)
(***************************************************************************)
SparseWidthTable ==
    pc = "built" =>
        Let2(ReadW, ReadDW, LAMBDA w, dw :
            /\ Len(w) % 2 = 0
            /\ \A k \in 1..(Len(w) \div 2 - 1) : w[2 * k - 1] < w[2 * k + 1]
            /\ { w[2 * k - 1] : k \in 1..(Len(w) \div 2) }
                   = { g \in encoder.used_glyphs : g = 0 \/ PerMille(g) # dw }
            /\ \A k \in 1..(Len(w) \div 2) : w[2 * k] = PerMille(w[2 * k - 1]))

\* glyph 0 is used and has the default width, and so has another used glyph
WitnessSparseWidthTable ==
    /\ pc = "built"
    /\ 0 \in encoder.used_glyphs
    /\ PerMille(0) = ReadDW
    /\ \E g \in encoder.used_glyphs : g # 0 /\ PerMille(g) = ReadDW
    /\ ReadW = <<0, PerMille(0)>>

RECURSIVE HexValue(_)
\* the number a run of upper-case hex digits writes
HexValue(s) ==
    IF Len(s) = 0 THEN 0
    ELSE HexValue(SubSeq(s, 1, Len(s) - 1)) * 16
         + (Find("0123456789ABCDEF", CharAt(s, Len(s))) - 1)

(***************************************************************************)
(* C14: encode_text writes four hex digits per character.  For every text  *)
(* and every font the parser accepts, the string returned is "<", then     *)
(* 4 * len(text) hex digits, then ">", and the k-th group of four digits   *)
(* is the glyph id of the k-th character.                                  *)
(***************************************************************************)
FourHexDigitsPerChar ==
    last_op.name = "encode_text" =>
        Let2(last_op.result, last_op.text, LAMBDA r, t :
            /\ Len(r) = 4 * Len(t) + 2
            /\ CharAt(r, 1) = "<"
            /\ CharAt(r, Len(r)) = ">"
            /\ \A k \in 1..Len(t) :
                   HexValue(SubSeq(r, 4 * k - 2, 4 * k + 1)) = GlyphForChar(CharAt(t, k)))

(***************************************************************************)
(* C15: for every font that parses, whatever numHMetrics and numGlyphs its *)
(* hhea and maxp tables carry, advance_widths has exactly numGlyphs        *)
(* entries, and the entries after the first numHMetrics repeat the last    *)
(* width the hmtx table gives.                                             *)
(***************************************************************************)
WidthsPerGlyph ==
    font # NoFont =>
        Let2(font_file.description, font.advance_widths, LAMBDA d, widths :
            /\ Len(widths) = d.num_glyphs
            /\ \A k \in 1..d.num_h_metrics : widths[k] = d.h_metrics[k]
            /\ \A k \in (d.num_h_metrics + 1)..Len(widths) :
                   widths[k] = d.h_metrics[d.num_h_metrics])

\* the tags of the table directory of the font file
FileTags == { font_file.description.tags[k] : k \in 1..Len(font_file.description.tags) }

MandatoryTags == {"head", "hhea", "maxp", "hmtx", "cmap"}

(***************************************************************************)
(* C16: the OS/2 and post tables are optional.  A font file that has the   *)
(* five mandatory tables, well formed, is parsed without error whether or  *)
(* not it has an OS/2 table and whether or not it has a post table, and    *)
(* without a post table the italic angle is 0.                             *)
(***************************************************************************)
OptionalTables ==
    ( /\ pc # "construct"
      /\ font_file.description \in TableFonts
      /\ MandatoryTags \subseteq FileTags )
    => /\ font # NoFont
       /\ "post" \notin FileTags => font.italic_angle = 0

\* no layout operation has run, nothing was added to a document, and there
\* is no output file
NothingBuilt ==
    /\ nops = 0
    /\ pages = <<>>
    /\ current_page = 0
    /\ encoder = EncoderInit
    /\ objects = <<>>
    /\ file = NoFile

(***************************************************************************)
(* C17: font failures abort the run before any other work.  When the font  *)
(* file is absent the run ends with SystemExit and the parser is never     *)
(* called.  When the file has a required table missing, ends early, has no *)
(* usable cmap subtable or has a cmap format the parser does not read, the *)
(* run goes from the parser to its end with the parser's exception, no     *)
(* layout operation has run and no output file exists.  After either end   *)
(* the run takes no further step.                                          *)
(***************************************************************************)
FontFailureAbortsRun ==
    /\ [](~font_file.exists =>
              /\ pc \in {"main", "exit"}
              /\ font = NoFont
              /\ NothingBuilt
              /\ pc = "exit" => error = "SystemExit")
    /\ []((font_file.exists /\ ( \/ font_file.description \in RefusedFonts
                                 \/ ~(MandatoryTags \subseteq FileTags) )) =>
              /\ pc \in {"main", "build", "failed"}
              /\ font = NoFont
              /\ NothingBuilt
              /\ pc = "failed" => error # "")
    /\ [][pc \notin {"exit", "failed"}]_vars

\* the parser has refused a font whose cmap format it does not read
WitnessFontFailure ==
    /\ pc = "failed"
    /\ font_file.description.cmap_format = 6
    /\ error = "RuntimeError: Unsupported cmap format"
    /\ NothingBuilt

\* the body add_stream appended: the serialized dictionary before the line
\* "stream", the payload as stored between that line and "endstream"
StreamHead(body) == SubSeq(body, 1, Find(body, "\nstream\n") - 1)

StreamStored(body) == SubSeq(body, Find(body, "\nstream\n") + 8, Len(body) - 10)

\* the number after the key in a serialized dictionary that has the key
NumberAfter(head, key) ==
    Let1(Find(head, key) + Len(key),
         LAMBDA b : ParseInt(SubSeq(head, b, DigitsEnd(head, b))))

(***************************************************************************)
(* C18: for every add_stream call, whatever the caller's dictionary holds, *)
(* the Length of the serialized dictionary is the number of bytes of the   *)
(* payload as stored (deflated when compress is requested), and the        *)
(* serialized dictionary has a Filter entry exactly when compress was      *)
(* requested.                                                              *)
(***************************************************************************)
LengthAndFilterComputed ==
    last_op.name = "add_stream" =>
        Let1(objects[Len(objects)], LAMBDA body :
            /\ StreamStored(body) = IF last_op.compress THEN Deflate(last_op.data)
                                    ELSE last_op.data
            /\ Find(StreamHead(body), "/Length ") > 0
            /\ NumberAfter(StreamHead(body), "/Length ") = Len(StreamStored(body))
            /\ (Find(StreamHead(body), "/Filter ") > 0) <=> last_op.compress)

(***************************************************************************)
(* C19: for every OS/2 table that is long enough to hold the typo metrics  *)
(* (72 bytes), the font parses; its cap height is the int16 at offset 88   *)
(* when the table version is at least 2 and the table holds that field     *)
(* (90 bytes), and the typo ascender otherwise.  A table too short for the *)
(* cap height field never makes the parser fail.                           *)
(***************************************************************************)
CapHeightOrFallback ==
    ( /\ pc # "construct"
      /\ font_file.description \in Os2Fonts
      /\ font_file.description.os2_length >= 72 )
    => Let1(font_file.description, LAMBDA d :
           /\ font # NoFont
           /\ font.s_typo_ascender = d.s_typo_ascender
           /\ font.s_typo_descender = d.s_typo_descender
           /\ font.s_cap_height = IF d.os2_version >= 2 /\ d.os2_length >= 90
                                  THEN d.s_cap_height
                                  ELSE d.s_typo_ascender)

(***************************************************************************)
(* The format 4 subtable of a font description d, read as the format       *)
(* defines it.  Segment k is d.segments[k] = <<start, end, delta, range    *)
(* offset>>; a range offset counts bytes from its own position in the      *)
(* range offset array, which the glyph array follows.                      *)
(***************************************************************************)
InSegment(d, k, code) == d.segments[k][1] <= code /\ code <= d.segments[k][2]

\* the byte offset in the glyph array that the range offset of segment k
\* gives for the code
GlyphArrayOffset(d, k, code) ==
    d.segments[k][4] - 2 * (Len(d.segments) - k + 1) + 2 * (code - d.segments[k][1])

\* that offset lies before the end of the subtable as its length field has it
BeforeSubtableEnd(d, k, code) ==
    GlyphArrayOffset(d, k, code) < 2 * Len(d.glyph_array) - d.cmap_cut

SegmentMaps(d, k, code) ==
    IF d.segments[k][4] = 0 THEN (code + d.segments[k][3]) % 65536
    ELSE Let1(d.glyph_array[GlyphArrayOffset(d, k, code) \div 2 + 1],
              LAMBDA raw : IF raw = 0 THEN 0 ELSE (raw + d.segments[k][3]) % 65536)

ParsedFormat4 == font # NoFont /\ font_file.description.cmap_format = 4

(***************************************************************************)
(* C20: in a parsed cmap format 4 subtable every code of every segment is  *)
(* mapped: to (code + delta) & 0xFFFF when the range offset is 0, and      *)
(* otherwise to the value read through the glyph array, 0 for a raw 0 and  *)
(* (raw + delta) & 0xFFFF for any other raw value.                         *)
(***************************************************************************)
EveryCodeMapped ==
    ParsedFormat4 =>
        Let1(font_file.description, LAMBDA d :
            \A k \in 1..Len(d.segments) :
                \A code \in d.segments[k][1]..d.segments[k][2] :
                    /\ code \in DOMAIN font.cmap
                    /\ font.cmap[code] = SegmentMaps(d, k, code))

(***************************************************************************)
(* C20 amended: the codes mapped are those of a segment with range offset  *)
(* 0 and those whose glyph array address lies before the end of the        *)
(* subtable (offset + length); a code whose address lies at or beyond that *)
(* end is left out of the cmap.  A mapped code has the glyph its segment   *)
(* gives by the rule above, the last such segment when segments overlap.   *)
(* One segment 0x41..0x43 with delta 0 and range offset 0 gives the glyphs *)
(* 0x41, 0x42, 0x43.                                                       *)
(***************************************************************************)
CodesMappedWithinSubtable ==
    ParsedFormat4 =>
        Let1(font_file.description, LAMBDA d :
            /\ \A code \in DOMAIN font.cmap :
                   \E k \in 1..Len(d.segments) : InSegment(d, k, code)
            /\ \A k \in 1..Len(d.segments) :
                   \A code \in d.segments[k][1]..d.segments[k][2] :
                       Let1({ j \in 1..Len(d.segments) :
                                  /\ InSegment(d, j, code)
                                  /\ \/ d.segments[j][4] = 0
                                     \/ BeforeSubtableEnd(d, j, code) },
                            LAMBDA maps :
                                IF maps = {} THEN code \notin DOMAIN font.cmap
                                ELSE /\ code \in DOMAIN font.cmap
                                     /\ font.cmap[code] = SegmentMaps(d, Max(maps), code))
            /\ d.segments = <<<<65, 67, 0, 0>>>> =>
                   font.cmap = (65 :> 65) @@ (66 :> 66) @@ (67 :> 67))

\* a glyph array read with a delta, a raw 0, and a code beyond the end
WitnessFormat4 ==
    /\ ParsedFormat4
    /\ font_file.description.segments = <<<<65, 67, 1, 2>>>>
    /\ font_file.description.cmap_cut = 2
    /\ font.cmap = (65 :> 2) @@ (66 :> 0)

(***************************************************************************)
(* Reading the pages back: the hexadecimal strings of a content stream,    *)
(* the glyph ids they hold, and the two maps of the font objects that are  *)
(* reached from the font dictionary.                                       *)
(***************************************************************************)
\* the payload of a stream that was stored deflated
Inflate(stored) == SubSeq(stored, 5, Len(stored) - 4)

RECURSIVE HexRuns(_)
\* the texts between "<" and ">" in a content stream
HexRuns(content) ==
    Let2(Find(content, "<"), Find(content, ">"), LAMBDA a, b :
        IF a = 0 \/ b < a THEN {}
        ELSE { SubSeq(content, a + 1, b - 1) }
             \cup HexRuns(SubSeq(content, b + 1, Len(content))))

\* the glyph ids of one hexadecimal string, four digits each
GlyphsOfRun(run) ==
    { HexValue(SubSeq(run, 4 * k - 3, 4 * k)) : k \in 1..(Len(run) \div 4) }

\* the glyph ids of every text a content stream shows
GlyphsOfContent(content) ==
    Let1(HexRuns(content), LAMBDA runs : UNION { GlyphsOfRun(r) : r \in runs })

\* the content streams of the pages added after the font objects
PageStreams ==
    { Inflate(StreamStored(objects[i])) :
        i \in { j \in (build.font_obj + 1)..Len(objects) :
                    Find(objects[j], "\nstream\n") # 0 } }

FontBody == objects[build.font_obj]

DescendantOfFont == objects[NumberAfter(FontBody, "/DescendantFonts [")]

\* the CIDToGIDMap payload, two characters per glyph id
CidMapStream ==
    Inflate(StreamStored(objects[NumberAfter(DescendantOfFont, "/CIDToGIDMap ")]))

\* the bfchar entries of the ToUnicode CMap
ToUnicodeStream ==
    Let1(Inflate(StreamStored(objects[NumberAfter(FontBody, "/ToUnicode ")])),
         LAMBDA text : SubSeq(text, Find(text, "beginbfchar\n") + 12,
                              Find(text, "endcmap") - 1))

HasIdentityEntry(cid_map, glyph) ==
    /\ Len(cid_map) >= 2 * glyph + 2
    /\ SubSeq(cid_map, 2 * glyph + 1, 2 * glyph + 2) = PackH(glyph)

HasToUnicodeEntry(bfchars, glyph) ==
    Find(bfchars, "<" \o Format04X(glyph) \o "> <") # 0

\* the glyph ids of the texts in the commands of the laid out pages
GlyphsOfPages ==
    UNION { GlyphsOfContent(PageContent(pages[p])) : p \in 1..Len(pages) }

(***************************************************************************)
(* C21: in build_pdf every character encoded into a page, the page-number *)
(* labels included, is registered in the encoder when build_pdf_objects is *)
(* about to run, and every glyph id in a content stream of the document    *)
(* has its identity entry in the CIDToGIDMap stream and an entry in the    *)
(* ToUnicode CMap.                                                         *)
(***************************************************************************)
ContentGlyphsAreMapped ==
    /\ pc = "font" => GlyphsOfPages \subseteq encoder.used_glyphs
    /\ pc \in {"pages", "catalog", "write", "done"} =>
        Let2(CidMapStream, ToUnicodeStream, LAMBDA cid_map, bfchars :
            \A content \in PageStreams :
                \A glyph \in GlyphsOfContent(content) :
                    /\ HasIdentityEntry(cid_map, glyph)
                    /\ HasToUnicodeEntry(bfchars, glyph))

\* the document is written, its page shows the label "1 / 1", and the digit
\* and the slash, which no other text of the page holds, are in both maps
WitnessPageLabelMapped ==
    /\ pc = "done"
    /\ Len(pages) = 1
    /\ \E content \in PageStreams :
        /\ Find(content, EncodeText(encoder, "1 / 1") \o " Tj") # 0
        /\ GlyphForChar("1") \in GlyphsOfContent(content)
        /\ GlyphForChar("/") \in GlyphsOfContent(content)
    /\ GlyphForChar("1") # 0
    /\ HasIdentityEntry(CidMapStream, GlyphForChar("1"))
    /\ Find(ToUnicodeStream, "<" \o Format04X(GlyphForChar("1")) \o "> <0031>") # 0
    /\ Find(ToUnicodeStream, "<" \o Format04X(GlyphForChar("/")) \o "> <002F>") # 0

(***************************************************************************)
(* C22: every line that add_paragraph produces holds at least one word of  *)
(* the paragraph: no line is the bullet prefix alone, and the first line   *)
(* of a bullet paragraph carries the prefix and, after it, the first word  *)
(* of the paragraph.                                                       *)
(***************************************************************************)
EveryLineHasAWord ==
    \A n \in 1..Len(log) :
        LET e     == log[n]
            words == Split(ReplaceNbsp(e.paragraph.text))
        IN  /\ \A k \in 1..Len(e.lines) : Len(LineWords(e.lines[k].text)) >= 1
            /\ ( e.paragraph.bullet /\ Len(e.lines) >= 1 )
               => /\ HasPrefix(e.lines[1].text)
                  /\ LineWords(e.lines[1].text) # <<>>
                  /\ LineWords(e.lines[1].text)[1] = words[1]

\* the first word of a bullet paragraph is wider than the first line and the
\* prefix is drawn alone, the word on the line below it
PrefixAloneBeforeWideWord ==
    \E n \in 1..Len(log) :
        LET e     == log[n]
            words == Split(ReplaceNbsp(e.paragraph.text))
        IN  /\ e.paragraph.bullet
            /\ Len(words) >= 1
            /\ Len(e.lines) >= 2
            /\ e.lines[1].text = BulletPrefix
            /\ LineWords(e.lines[2].text)[1] = words[1]

\* a bullet paragraph of white space draws the prefix and nothing else
PrefixAloneWithoutWords ==
    \E n \in 1..Len(log) :
        LET e == log[n]
        IN  /\ e.paragraph.bullet
            /\ e.paragraph.text # ""
            /\ Split(ReplaceNbsp(e.paragraph.text)) = <<>>
            /\ Len(e.lines) = 1
            /\ e.lines[1].text = BulletPrefix
            /\ Len(e.placed) = 1

(***************************************************************************)
(* C23: for every font the parser accepts and every text, each glyph id    *)
(* that ensure_text has registered is an index of advance_widths, and no   *)
(* call of measure_text or build_pdf_objects on the encoder of a parsed    *)
(* font ends with an IndexError.                                           *)
(***************************************************************************)
RegisteredGlyphsHaveWidths ==
    font # NoFont =>
        /\ \A glyph \in encoder.used_glyphs : glyph < Len(font.advance_widths)
        /\ error # "IndexError"

\* measure_text has failed on a character that the cmap of a parsed font
\* sends to a glyph id beyond the advance widths
MeasureFailsOnRegisteredGlyph ==
    /\ font # NoFont
    /\ pc = "failed"
    /\ error = "IndexError"
    /\ last_op.name = "measure_text"
    /\ \E glyph \in encoder.used_glyphs : glyph >= Len(font.advance_widths)

\* the same for the widths that build_pdf_objects computes
WidthsFailOnRegisteredGlyph ==
    /\ font # NoFont
    /\ pc = "failed"
    /\ error = "IndexError"
    /\ last_op.name = "ensure_text"
    /\ \E glyph \in encoder.used_glyphs : glyph >= Len(font.advance_widths)
====
